---------------------------- MODULE Spec2Model ----------------------------
(***************************************************************************)
(* Model of the graph-modelling and validation core of the document        *)
(* pipeline: the RDF generator (lambda/rdf-generator/index.py) and the     *)
(* ontology validator (lambda/ontology-validator/index.py).                *)
(*                                                                         *)
(* Strings.  A Python str is a sequence of atoms.  An atom is either one   *)
(* character that some operation of the code looks at (a bracket, a quote, *)
(* a blank, a period, a backslash, a line feed, ...) or a run of           *)
(* characters none of which any modelled operation looks at (a namespace   *)
(* stem, a word).  startswith, strip, split, replace and join are computed *)
(* on these sequences as Python computes them on characters.               *)
(***************************************************************************)
EXTENDS Integers, Sequences, FiniteSets, TLC

VARIABLES
    pc,             \* position of the invocation being modelled
    event,          \* the handler's input event (a dict)
    s3_object,      \* what s3_client.get_object finds under rdfS3Key
    sparql,         \* the endpoint's answers to the three SPARQL queries
    ontology_model, \* the Schema Model fetch_ontology_model returned
    triples,        \* the triples parse_turtle_simple returned
    validation,     \* outcome of validate_against_ontology
    result,         \* the dict the handler returned
    doc,            \* rdf-generator input: the document given to the builder
    rdf_graph,      \* rdf-generator: the triples generate_rdf_graph built
    rdf_content,    \* rdf-generator: the serialized text
    env,            \* rdf-generator: RDF_FORMAT and the clock's reading
    calls,          \* the requests the invocation sent to S3 and the endpoint
    locals          \* the local variables of the loop in progress

vars == <<pc, event, s3_object, sparql, ontology_model, triples, validation,
          result, doc, rdf_graph, rdf_content, env, calls, locals>>

None == [none |-> TRUE]

-----------------------------------------------------------------------------
(* Characters and Python's str operations *)

QUOTE == "\""
BACKSLASH == "\\"
LF == "\n"
CR == "\r"
TAB == "\t"
SP == " "
LT == "<"
GT == ">"
DOT == "."

\* the characters str.strip() and str.split() treat as white space
Whitespace == {SP, LF, CR, TAB}

Min(S) == CHOOSE m \in S : \A n \in S : m <= n
Max(S) == CHOOSE m \in S : \A n \in S : m >= n

\* s.startswith(p)
StartsWith(s, p) == Len(s) >= Len(p) /\ SubSeq(s, 1, Len(p)) = p

\* s.strip(chars): the characters of cs removed from both ends
Strip(s, cs) ==
    LET keep == {i \in 1..Len(s) : s[i] \notin cs}
    IN  IF keep = {} THEN <<>> ELSE SubSeq(s, Min(keep), Max(keep))

\* s.rstrip(chars)
RStrip(s, cs) ==
    LET keep == {i \in 1..Len(s) : s[i] \notin cs}
    IN  IF keep = {} THEN <<>> ELSE SubSeq(s, 1, Max(keep))

\* the flattening of a sequence of sequences
RECURSIVE Flatten(_)
Flatten(ss) ==
    IF ss = <<>> THEN <<>>
    ELSE IF Len(ss) = 1 THEN ss[1]
    ELSE LET half == Len(ss) \div 2
         IN  Flatten(SubSeq(ss, 1, half)) \o Flatten(SubSeq(ss, half + 1, Len(ss)))

\* the subsequence of the elements satisfying Test, in order
SelectIdx(s, keep) ==
    Flatten([i \in 1..Len(s) |-> IF i \in keep THEN <<s[i]>> ELSE <<>>])

\* s.split(sep) for a one-character sep: always at least one part
SplitOn(s, sep) ==
    LET \* where the separators stand, in order
        at == SelectIdx([i \in 1..Len(s) |-> i],
                        {i \in 1..Len(s) : s[i] = sep})
        n == Len(at)
    IN  [k \in 1..(n + 1) |->
            SubSeq(s, (IF k = 1 THEN 0 ELSE at[k - 1]) + 1,
                      (IF k = n + 1 THEN Len(s) + 1 ELSE at[k]) - 1)]

\* s.split(): split on runs of white space, no empty parts
RECURSIVE SplitWs(_)
SplitWs(s) ==
    LET t == Strip(s, Whitespace)
        at == {i \in 1..Len(t) : t[i] \in Whitespace}
    IN  IF t = <<>> THEN <<>>
        ELSE IF at = {} THEN <<t>>
        ELSE <<SubSeq(t, 1, Min(at) - 1)>>
             \o SplitWs(SubSeq(t, Min(at) + 1, Len(t)))

\* sep.join(parts)
RECURSIVE Join(_, _)
Join(parts, sep) ==
    IF parts = <<>> THEN <<>>
    ELSE IF Len(parts) = 1 THEN parts[1]
    ELSE LET half == Len(parts) \div 2
         IN  Join(SubSeq(parts, 1, half), sep) \o sep
             \o Join(SubSeq(parts, half + 1, Len(parts)), sep)

\* s.replace(c, by) for a one-character c
RECURSIVE Replace(_, _, _)
Replace(s, c, by) ==
    IF s = <<>> THEN <<>>
    ELSE (IF Head(s) = c THEN by ELSE <<Head(s)>>) \o Replace(Tail(s), c, by)

\* the elements of a sequence
Range(s) == {s[i] : i \in 1..Len(s)}


\* the sequences over S of length at most n
BoundedSeq(S, n) == UNION {[1..k -> S] : k \in 0..n}

-----------------------------------------------------------------------------
(* URIs of the two programs *)

\* rdf-generator: NAMESPACE_BASE and the namespaces built on it
NAMESPACE_BASE == <<"http://graph-rag.example.com/">>
NAMESPACE_DOC == NAMESPACE_BASE \o <<"document", "/">>
NAMESPACE_ENTITY == NAMESPACE_BASE \o <<"entity", "/">>
NAMESPACE_ONTO == NAMESPACE_BASE \o <<"ontology", "/">>

\* ontology-validator: the prefix its class-membership check looks for
VALIDATOR_ONTO_PREFIX == NAMESPACE_BASE \o <<"ontology", "#">>

RDF_NS == <<"http://www.w3.org/1999/02/22-rdf-syntax-ns#">>
XSD_NS == <<"http://www.w3.org/2001/XMLSchema#">>
\* ontology-validator: the predicate that declares a type
RDF_TYPE == RDF_NS \o <<"type">>

-----------------------------------------------------------------------------
(* ontology-validator: parse_turtle_simple *)

\* the loop's body without the test for bracketed tokens
parse_line_AnyTokens(raw) ==
    LET line == Strip(raw, Whitespace)
        parts == SplitWs(line)
    IN  IF line = <<>> \/ line[1] = "#" \/ line[1] = "@" THEN <<>>
        ELSE IF Len(parts) >= 3
        THEN LET subject == Strip(parts[1], {LT, GT})
                 predicate == Strip(parts[2], {LT, GT})
                 joined == RStrip(Join(SubSeq(parts, 3, Len(parts)), <<SP>>),
                                  {SP, DOT})
                 object_val == Strip(joined, {LT, GT, QUOTE})
             IN  << <<subject, predicate, object_val>> >>
        ELSE <<>>

\* one line of the loop: the triple it appends, or nothing
parse_line(raw) ==
    LET line == Strip(raw, Whitespace)
        parts == SplitWs(line)
    IN  IF line = <<>> \/ line[1] = "#" \/ line[1] = "@" THEN <<>>
        ELSE IF Len(parts) >= 3
                /\ StartsWith(parts[1], <<LT>>)
                /\ StartsWith(parts[2], <<LT>>)
        THEN LET subject == Strip(parts[1], {LT, GT})
                 predicate == Strip(parts[2], {LT, GT})
                 joined == RStrip(Join(SubSeq(parts, 3, Len(parts)), <<SP>>),
                                  {SP, DOT})
                 object_val == Strip(joined, {LT, GT, QUOTE})
             IN  << <<subject, predicate, object_val>> >>
        ELSE <<>>

parse_turtle_simple(content) ==
    LET lines == SplitOn(content, LF)
    IN  Flatten([i \in 1..Len(lines) |-> parse_line(lines[i])])

-----------------------------------------------------------------------------
(* ontology-validator: validate_against_ontology *)

Digits == <<"0", "1", "2", "3", "4", "5", "6", "7", "8", "9">>
DigitValue(d) == (CHOOSE i \in 1..10 : Digits[i] = d) - 1

\* whether int(v) succeeds: decimal digits after an optional sign
IsIntLiteral(v) ==
    LET body == IF v # <<>> /\ v[1] \in {"-", "+"} THEN Tail(v) ELSE v
    IN  body # <<>> /\ \A i \in 1..Len(body) : body[i] \in Range(Digits)

RECURSIVE DigitsValue(_)
DigitsValue(ds) ==
    IF ds = <<>> THEN 0
    ELSE 10 * DigitsValue(SubSeq(ds, 1, Len(ds) - 1)) + DigitValue(ds[Len(ds)])

\* int(v), where it succeeds
IntOf(v) ==
    IF v[1] = "-" THEN 0 - DigitsValue(Tail(v))
    ELSE IF v[1] = "+" THEN DigitsValue(Tail(v))
    ELSE DigitsValue(v)

\* the position of subject s in the instances dict, or 0
InstanceIndex(instances, s) ==
    LET at == {i \in 1..Len(instances) : instances[i].uri = s}
    IN  IF at = {} THEN 0 ELSE Min(at)

\* AppendValue that keeps a value once
AppendValue_Distinct(properties, p, o) ==
    LET at == {i \in 1..Len(properties) : properties[i].prop = p}
    IN  IF at = {} THEN Append(properties, [prop |-> p, values |-> <<o>>])
        ELSE IF o \in Range(properties[Min(at)].values) THEN properties
        ELSE [properties EXCEPT ![Min(at)].values = Append(@, o)]

\* instances[s]['properties'][p].append(o), creating the list when absent
AppendValue(properties, p, o) ==
    LET at == {i \in 1..Len(properties) : properties[i].prop = p}
    IN  IF at = {} THEN Append(properties, [prop |-> p, values |-> <<o>>])
        ELSE [properties EXCEPT ![Min(at)].values = Append(@, o)]

\* one iteration of the grouping loop
AddTriple(instances, t) ==
    LET s == t[1]
        p == t[2]
        o == t[3]
        known == IF InstanceIndex(instances, s) = 0
                 THEN Append(instances,
                             [uri |-> s, types |-> <<>>, properties |-> <<>>])
                 ELSE instances
        i == InstanceIndex(known, s)
    IN  IF p = RDF_TYPE
        THEN [known EXCEPT ![i].types = Append(@, o)]
        ELSE [known EXCEPT ![i].properties = AppendValue(@, p, o)]

\* the instances dict, in insertion order
RECURSIVE GroupInstances(_)
GroupInstances(ts) ==
    IF ts = <<>> THEN <<>>
    ELSE AddTriple(GroupInstances(SubSeq(ts, 1, Len(ts) - 1)), ts[Len(ts)])

\* instance_data['properties'].get(prop_uri, [])
PropertyValues(inst, p) ==
    LET at == {i \in 1..Len(inst.properties) : inst.properties[i].prop = p}
    IN  IF at = {} THEN <<>> ELSE inst.properties[Min(at)].values

\* Check 1 without the guard on a non-empty class set
ClassMembershipWarnings_NoGuard(inst, defined_classes) ==
    Flatten([k \in 1..Len(inst.types) |->
        IF StartsWith(inst.types[k], VALIDATOR_ONTO_PREFIX)
           /\ inst.types[k] \notin defined_classes
        THEN << [type |-> "undefined_class",
                 instance |-> inst.uri,
                 class |-> inst.types[k]] >>
        ELSE <<>>])

\* Check 1: the warnings of one instance
ClassMembershipWarnings(inst, defined_classes) ==
    Flatten([k \in 1..Len(inst.types) |->
        IF StartsWith(inst.types[k], VALIDATOR_ONTO_PREFIX)
           /\ inst.types[k] \notin defined_classes
           /\ defined_classes # {}
        THEN << [type |-> "undefined_class",
                 instance |-> inst.uri,
                 class |-> inst.types[k]] >>
        ELSE <<>>])

\* property_definitions[prop_uri]: the last row given for the property
PropertyDefinition(properties, p) ==
    properties[Max({i \in 1..Len(properties) : properties[i].property = p})]

\* Check 2: the warnings of one instance
DomainWarnings(inst, properties) ==
    Flatten([k \in 1..Len(inst.properties) |->
        LET prop_uri == inst.properties[k].prop
        IN  IF \E i \in 1..Len(properties) : properties[i].property = prop_uri
            THEN LET prop_def == PropertyDefinition(properties, prop_uri)
                 IN  IF "domain" \in DOMAIN prop_def
                        /\ prop_def.domain # <<>>
                        /\ prop_def.domain \notin Range(inst.types)
                     THEN << [type |-> "domain_mismatch",
                              instance |-> inst.uri,
                              property |-> prop_uri,
                              expected_domain |-> prop_def.domain,
                              actual_types |-> inst.types] >>
                     ELSE <<>>
            ELSE <<>>])

\* restrictions_by_class.get(class_uri): the rows of the class, in order
RestrictionsOfClass(restrictions, class_uri) ==
    SelectIdx(restrictions,
              {i \in 1..Len(restrictions) : restrictions[i].class = class_uri})

\* whether the body of the restriction loop raises for this restriction
RestrictionRaises(restriction) ==
    \/ {"property", "restrictionType", "value"} \ DOMAIN restriction # {}
    \/ /\ restriction.restrictionType = <<"minCardinality">>
       /\ ~IsIntLiteral(restriction.value)

\* the loop's body with an exact cardinality enforced whatever its value
RestrictionViolations_AnyCardinality(inst, restriction) ==
    LET prop_uri == restriction.property
        prop_count == Len(PropertyValues(inst, prop_uri))
    IN  IF restriction.restrictionType = <<"cardinality">>
        THEN IF prop_count # 1
             THEN << [type |-> "cardinality_violation",
                      instance |-> inst.uri,
                      property |-> prop_uri,
                      expected |-> 1,
                      actual |-> prop_count] >>
             ELSE <<>>
        ELSE <<>>

\* the body of the restriction loop: the violations it appends
RestrictionViolations(inst, restriction) ==
    LET prop_uri == restriction.property
        prop_count == Len(PropertyValues(inst, prop_uri))
    IN  IF restriction.restrictionType = <<"cardinality">>
           /\ restriction.value = <<"1">>
        THEN IF prop_count # 1
             THEN << [type |-> "cardinality_violation",
                      instance |-> inst.uri,
                      property |-> prop_uri,
                      expected |-> 1,
                      actual |-> prop_count] >>
             ELSE <<>>
        ELSE IF restriction.restrictionType = <<"minCardinality">>
        THEN IF prop_count < IntOf(restriction.value)
             THEN << [type |-> "min_cardinality_violation",
                      instance |-> inst.uri,
                      property |-> prop_uri,
                      min_expected |-> IntOf(restriction.value),
                      actual |-> prop_count] >>
             ELSE <<>>
        ELSE <<>>

\* the restrictions Check 3 visits for one instance, in visiting order
VisitedRestrictions(inst, restrictions) ==
    Flatten([k \in 1..Len(inst.types) |->
        RestrictionsOfClass(restrictions, inst.types[k])])

\* Check 3: the violations of one instance
CardinalityViolations(inst, restrictions) ==
    LET visited == VisitedRestrictions(inst, restrictions)
    IN  Flatten([k \in 1..Len(visited) |->
            RestrictionViolations(inst, visited[k])])

\* whether validate_against_ontology raises instead of returning
ValidateRaises(instances, model) ==
    \/ \E i \in 1..Len(model.classes) : "class" \notin DOMAIN model.classes[i]
    \/ \E i \in 1..Len(model.properties) :
           "property" \notin DOMAIN model.properties[i]
    \/ \E i \in 1..Len(model.restrictions) :
           "class" \notin DOMAIN model.restrictions[i]
    \/ \E i \in 1..Len(instances) :
           \E r \in Range(VisitedRestrictions(instances[i], model.restrictions)) :
               RestrictionRaises(r)

validate_against_ontology(ts, model) ==
    LET instances == GroupInstances(ts)
        defined_classes == {model.classes[i].class : i \in 1..Len(model.classes)}
    IN  IF ValidateRaises(instances, model)
        THEN [raised |-> TRUE,
              error |-> IF \E r \in Range(model.restrictions) :
                               "class" \in DOMAIN r /\ RestrictionRaises(r)
                                   /\ "value" \in DOMAIN r
                        THEN "ValueError" ELSE "KeyError"]
        ELSE [raised |-> FALSE,
              violations |-> Flatten([i \in 1..Len(instances) |->
                  CardinalityViolations(instances[i], model.restrictions)]),
              warnings |->
                  Flatten([i \in 1..Len(instances) |->
                      ClassMembershipWarnings(instances[i], defined_classes)])
                  \o Flatten([i \in 1..Len(instances) |->
                      DomainWarnings(instances[i], model.properties)]),
              checks_performed |-> <<"class_membership",
                                     "property_domains_ranges",
                                     "cardinality_constraints">>,
              instances_validated |-> Len(instances),
              triples_validated |-> Len(ts)]

-----------------------------------------------------------------------------
(* ontology-validator: fetch_ontology_model *)

\* whether execute_sparql_query raises: the request times out, the status
\* is not 200, or json.loads rejects the body
QueryRaises(response) == response.kind # "json"

\* parsed[var] = value.get('value', '') for every variable of one binding
ParseBinding(binding) ==
    [var \in DOMAIN binding |->
        IF "value" \in DOMAIN binding[var] THEN binding[var].value ELSE <<>>]

parse_sparql_results(results) ==
    IF "results" \notin DOMAIN results
       \/ "bindings" \notin DOMAIN results.results
    THEN <<>>
    ELSE [i \in 1..Len(results.results.bindings) |->
             ParseBinding(results.results.bindings[i])]

EmptyModel == [classes |-> <<>>, properties |-> <<>>, restrictions |-> <<>>]

\* responses: the endpoint's answers to the classes, properties and
\* restrictions queries, in the order the function sends them
fetch_ontology_model(responses) ==
    IF \E q \in 1..3 : QueryRaises(responses[q])
    THEN EmptyModel
    ELSE [classes |-> parse_sparql_results(responses[1].body),
          properties |-> parse_sparql_results(responses[2].body),
          restrictions |-> parse_sparql_results(responses[3].body)]

\* the queries fetch_ontology_model sent: it stops at the first that raises
QueriesSent(responses) ==
    LET raising == {q \in 1..3 : QueryRaises(responses[q])}
        last == IF raising = {} THEN 3 ELSE Min(raising)
    IN  [q \in 1..last |-> "sparql"]

-----------------------------------------------------------------------------
(* ontology-validator: handler *)

\* a dict built from the new keys alone
Merge_OverOnly(d, over) == over

\* {**d, **over}
Merge(d, over) ==
    [k \in DOMAIN d \cup DOMAIN over |->
        IF k \in DOMAIN over THEN over[k] ELSE d[k]]

\* a test that only notices an absent key
Falsy_AbsentOnly(ev, key) == key \notin DOMAIN ev

\* not event.get(key): the key is absent or its value is the empty string
Falsy(ev, key) == key \notin DOMAIN ev \/ ev[key] = <<>>

\* the status with the warnings looked at before the violations
StatusOf_WarningsFirst(violations, warnings) ==
    IF Len(warnings) > 0 THEN "WARNING"
    ELSE IF Len(violations) > 0 THEN "FAILED"
    ELSE "PASSED"

\* status from the two lists
StatusOf(violations, warnings) ==
    IF Len(violations) > 0 THEN "FAILED"
    ELSE IF Len(warnings) > 0 THEN "WARNING"
    ELSE "PASSED"

\* 'success' that fails on warnings too
SuccessOf_PassedOnly(status) == status = "PASSED"

\* 'success' of the result built on the normal path
SuccessOf(status) == status # "FAILED"

\* the dict of the except branch
ErrorResult(ev, error) ==
    Merge(ev, [validationStatus |-> "ERROR",
               success |-> FALSE,
               error |-> error,
               stage |-> "ontology-validation"])

\* the dict of the normal path
NormalResult(ev, v) ==
    LET status == StatusOf(v.violations, v.warnings)
    IN  Merge(ev, [validationStatus |-> status,
                   violations |-> v.violations,
                   warnings |-> v.warnings,
                   validationChecks |-> v.checks_performed,
                   success |-> SuccessOf(status)])

\* One invocation of the validator's handler, start to return.
handler ==
    /\ pc = "validator"
    /\ pc' = "validated"
    /\ IF Falsy(event, "documentId") \/ Falsy(event, "rdfS3Key")
       THEN /\ result' = ErrorResult(event, "documentId and rdfS3Key are required")
            /\ calls' = <<>>
            /\ UNCHANGED <<triples, ontology_model, validation>>
       ELSE IF ~s3_object.found
       THEN /\ result' = ErrorResult(event, "NoSuchKey")
            /\ calls' = <<"s3.get_object">>
            /\ UNCHANGED <<triples, ontology_model, validation>>
       ELSE LET ts == parse_turtle_simple(s3_object.body)
                model == fetch_ontology_model(sparql)
                v == validate_against_ontology(ts, model)
            IN  /\ calls' = <<"s3.get_object">> \o QueriesSent(sparql)
                /\ triples' = ts
                /\ ontology_model' = model
                /\ validation' = v
                /\ result' = IF v.raised
                             THEN ErrorResult(event, v.error)
                             ELSE NormalResult(event, v)
    /\ UNCHANGED <<event, s3_object, sparql, doc, rdf_graph, rdf_content, env,
                   locals>>

-----------------------------------------------------------------------------
(* rdf-generator: escape_literal, quote, extract_entities_simple *)

\* the five replacements, in the order the code applies them
escape_literal(text) ==
    Replace(Replace(Replace(Replace(Replace(text,
        BACKSLASH, <<BACKSLASH, BACKSLASH>>),
        QUOTE, <<BACKSLASH, QUOTE>>),
        LF, <<BACKSLASH, "n">>),
        CR, <<BACKSLASH, "r">>),
        TAB, <<BACKSLASH, "t">>)

\* urllib.parse.quote: the characters it percent-encodes, among those the
\* model's strings are made of (letters, digits and _.-~/ are kept)
PercentEncoded ==
    (SP :> "%20") @@ (QUOTE :> "%22") @@ (BACKSLASH :> "%5C") @@ (LT :> "%3C")
    @@ (GT :> "%3E") @@ (LF :> "%0A") @@ (CR :> "%0D") @@ (TAB :> "%09")
    @@ ("," :> "%2C") @@ ("#" :> "%23") @@ ("@" :> "%40") @@ (";" :> "%3B")

quote(text) ==
    [i \in 1..Len(text) |->
        IF text[i] \in DOMAIN PercentEncoded THEN PercentEncoded[text[i]]
        ELSE text[i]]

Upper == {"A", "B", "C", "D", "E", "F", "G", "H", "I", "J", "K", "L", "M",
          "N", "O", "P", "Q", "R", "S", "T", "U", "V", "W", "X", "Y", "Z"}
Lower == {"a", "b", "c", "d", "e", "f", "g", "h", "i", "j", "k", "l", "m",
          "n", "o", "p", "q", "r", "s", "t", "u", "v", "w", "x", "y", "z"}
\* the characters the regular expression's \b counts as part of a word
WordChars == Upper \cup Lower \cup Range(Digits) \cup {"_"}

\* whether \b[A-Z][a-z]+\b matches text[i..j]
IsCapitalizedWord(text, i, j) ==
    /\ i < j
    /\ text[i] \in Upper
    /\ \A k \in (i + 1)..j : text[k] \in Lower
    /\ i = 1 \/ text[i - 1] \notin WordChars
    /\ j = Len(text) \/ text[j + 1] \notin WordChars

\* re.findall(r'\b[A-Z][a-z]+\b', text): the matches, left to right
FindCapitalizedWords(text) ==
    LET starts == {i \in 1..Len(text) :
                      \E j \in i..Len(text) : IsCapitalizedWord(text, i, j)}
        EndOf(i) == CHOOSE j \in i..Len(text) : IsCapitalizedWord(text, i, j)
        found == SelectIdx([i \in 1..Len(text) |-> i], starts)
    IN  [k \in 1..Len(found) |-> SubSeq(text, found[k], EndOf(found[k]))]

MAX_ENTITIES == 5
MIN_ENTITY_LENGTH == 3

\* the loop over the words without the test on seen
RECURSIVE CollectEntities_KeepsRepeats(_, _)
CollectEntities_KeepsRepeats(words, entities) ==
    IF words = <<>> \/ Len(entities) >= MAX_ENTITIES THEN entities
    ELSE IF Len(Head(words)) > MIN_ENTITY_LENGTH
         THEN CollectEntities_KeepsRepeats(Tail(words),
                                           Append(entities, Head(words)))
         ELSE CollectEntities_KeepsRepeats(Tail(words), entities)

\* the loop over the words: entities so far, in first-seen order
RECURSIVE CollectEntities(_, _)
CollectEntities(words, entities) ==
    IF words = <<>> \/ Len(entities) >= MAX_ENTITIES THEN entities
    ELSE IF Head(words) \notin Range(entities)
            /\ Len(Head(words)) > MIN_ENTITY_LENGTH
         THEN CollectEntities(Tail(words), Append(entities, Head(words)))
         ELSE CollectEntities(Tail(words), entities)

\* the entity texts; the code pairs each with the type 'Entity'
extract_entities_simple(text) ==
    CollectEntities(FindCapitalizedWords(text), <<>>)

-----------------------------------------------------------------------------
(* rdf-generator: generate_rdf_graph *)

\* str(n) for n >= 0
RECURSIVE IntToStr(_)
IntToStr(n) ==
    IF n < 10 THEN <<Digits[n + 1]>>
    ELSE IntToStr(n \div 10) \o <<Digits[(n % 10) + 1]>>

Triple(s, p, o) == [subject |-> s, predicate |-> p, object |-> o]

\* f'"{text}"'
PlainLiteral(text) == <<QUOTE>> \o text \o <<QUOTE>>
\* f'"{text}"^^xsd:{datatype}'
TypedLiteral(text, datatype) ==
    <<QUOTE>> \o text \o <<QUOTE, "^^", "xsd:", datatype>>

RdfTypePrefixed == <<"rdf:", "type">>
Onto(name) == NAMESPACE_ONTO \o <<name>>

TEXT_LIMIT == 500

\* metadata.get(key): present and not the empty string
HasField(metadata, key) == key \in DOMAIN metadata /\ metadata[key] # <<>>

DocumentTriples(doc_uri, document_id, text_content, file_name, now) ==
    << Triple(doc_uri, RdfTypePrefixed, Onto("Document")),
       Triple(doc_uri, Onto("hasId"), PlainLiteral(document_id)),
       Triple(doc_uri, Onto("hasFileName"),
              PlainLiteral(escape_literal(file_name))),
       Triple(doc_uri, Onto("hasTextLength"),
              TypedLiteral(IntToStr(Len(text_content)), "integer")),
       Triple(doc_uri, Onto("createdAt"), TypedLiteral(now, "dateTime")) >>

\* the keyword loop's body without the Document-to-Keyword link
KeywordTriples_NoLink(doc_uri, part) ==
    LET keyword == Strip(part, Whitespace)
        keyword_uri == NAMESPACE_ENTITY \o quote(keyword)
    IN  << Triple(keyword_uri, RdfTypePrefixed, Onto("Keyword")),
           Triple(keyword_uri, Onto("hasValue"),
                  PlainLiteral(escape_literal(keyword))) >>

\* the body of the keyword loop for one part of the split field
KeywordTriples(doc_uri, part) ==
    LET keyword == Strip(part, Whitespace)
        keyword_uri == NAMESPACE_ENTITY \o quote(keyword)
    IN  << Triple(keyword_uri, RdfTypePrefixed, Onto("Keyword")),
           Triple(keyword_uri, Onto("hasValue"),
                  PlainLiteral(escape_literal(keyword))),
           Triple(doc_uri, Onto("hasKeyword"), keyword_uri) >>

MetadataTriples(doc_uri, metadata) ==
    (IF HasField(metadata, "keywords")
     THEN LET keywords == SplitOn(metadata.keywords, ",")
          IN  Flatten([k \in 1..Len(keywords) |->
                  KeywordTriples(doc_uri, keywords[k])])
     ELSE <<>>)
    \o (IF HasField(metadata, "documentType")
        THEN << Triple(doc_uri, Onto("hasType"),
                       PlainLiteral(escape_literal(metadata.documentType))) >>
        ELSE <<>>)
    \o (IF HasField(metadata, "author")
        THEN LET author_uri == NAMESPACE_ENTITY \o quote(metadata.author)
             IN  << Triple(author_uri, RdfTypePrefixed, Onto("Author")),
                    Triple(author_uri, Onto("hasName"),
                           PlainLiteral(escape_literal(metadata.author))),
                    Triple(doc_uri, Onto("hasAuthor"), author_uri) >>
        ELSE <<>>)

\* the triples of one extracted entity without the mention link
EntityTriples_NoMention(chunk_uri, entity_text) ==
    LET entity_uri == NAMESPACE_ENTITY \o quote(entity_text)
    IN  << Triple(entity_uri, RdfTypePrefixed, Onto("Entity")),
           Triple(entity_uri, Onto("hasValue"),
                  PlainLiteral(escape_literal(entity_text))) >>

\* the three triples of one extracted entity
EntityTriples(chunk_uri, entity_text) ==
    LET entity_uri == NAMESPACE_ENTITY \o quote(entity_text)
    IN  << Triple(entity_uri, RdfTypePrefixed, Onto("Entity")),
           Triple(entity_uri, Onto("hasValue"),
                  PlainLiteral(escape_literal(entity_text))),
           Triple(chunk_uri, Onto("mentions"), entity_uri) >>

\* chunk.get(key, 0)
ChunkNumber(chunk, key) == IF key \in DOMAIN chunk THEN chunk[key] ELSE 0

\* the body of the chunk loop
ChunkTriples(doc_uri, chunk) ==
    LET chunk_id == ChunkNumber(chunk, "chunkId")
        chunk_text == IF "text" \in DOMAIN chunk THEN chunk.text ELSE <<>>
        chunk_uri == doc_uri \o <<"/chunk/">> \o IntToStr(chunk_id)
        truncated == SubSeq(chunk_text, 1,
                            IF Len(chunk_text) < TEXT_LIMIT THEN Len(chunk_text)
                            ELSE TEXT_LIMIT)
        entities == extract_entities_simple(chunk_text)
    IN  << Triple(chunk_uri, RdfTypePrefixed, Onto("TextChunk")),
           Triple(chunk_uri, Onto("hasChunkId"),
                  TypedLiteral(IntToStr(chunk_id), "integer")),
           Triple(chunk_uri, Onto("hasText"),
                  PlainLiteral(escape_literal(truncated))),
           Triple(chunk_uri, Onto("hasStartPosition"),
                  TypedLiteral(IntToStr(ChunkNumber(chunk, "startPosition")),
                               "integer")),
           Triple(chunk_uri, Onto("hasLength"),
                  TypedLiteral(IntToStr(ChunkNumber(chunk, "length")),
                               "integer")),
           Triple(doc_uri, Onto("hasChunk"), chunk_uri) >>
        \o Flatten([k \in 1..Len(entities) |->
               EntityTriples(chunk_uri, entities[k])])

\* now: what datetime.utcnow().isoformat() returns during the call
generate_rdf_graph(document_id, text_content, chunks, metadata, file_name, now) ==
    LET doc_uri == NAMESPACE_DOC \o document_id
    IN  DocumentTriples(doc_uri, document_id, text_content, file_name, now)
        \o MetadataTriples(doc_uri, metadata)
        \o Flatten([k \in 1..Len(chunks) |-> ChunkTriples(doc_uri, chunks[k])])

-----------------------------------------------------------------------------
(* rdf-generator: serialize_ntriples *)

\* format_uri_full without the expansion of prefixes
format_uri_full_Unexpanded(uri) == <<LT>> \o uri \o <<GT>>

format_uri_full(uri) ==
    IF StartsWith(uri, <<"rdf:">>) THEN <<LT>> \o RDF_NS \o Tail(uri) \o <<GT>>
    ELSE IF StartsWith(uri, <<"xsd:">>)
    THEN <<LT>> \o XSD_NS \o Tail(uri) \o <<GT>>
    ELSE IF StartsWith(uri, <<"doc:">>)
    THEN <<LT>> \o NAMESPACE_DOC \o Tail(uri) \o <<GT>>
    ELSE IF StartsWith(uri, <<"entity:">>)
    THEN <<LT>> \o NAMESPACE_ENTITY \o Tail(uri) \o <<GT>>
    ELSE IF StartsWith(uri, <<"onto:">>)
    THEN <<LT>> \o NAMESPACE_ONTO \o Tail(uri) \o <<GT>>
    ELSE <<LT>> \o uri \o <<GT>>

\* the line of one triple
NTriplesLine(triple) ==
    LET subject == <<LT>> \o triple.subject \o <<GT>>
        predicate == IF StartsWith(triple.predicate, <<LT>>)
                     THEN triple.predicate
                     ELSE format_uri_full(triple.predicate)
        obj == IF ~StartsWith(triple.object, <<QUOTE>>)
                  /\ ~StartsWith(triple.object, <<LT>>)
               THEN <<LT>> \o triple.object \o <<GT>>
               ELSE triple.object
    IN  subject \o <<SP>> \o predicate \o <<SP>> \o obj \o <<SP, DOT>>

serialize_ntriples(graph) ==
    Join([k \in 1..Len(graph) |-> NTriplesLine(graph[k])], <<LF>>)

-----------------------------------------------------------------------------
(* rdf-generator: serialize_turtle, serialize_rdf *)

\* s.replace(old, by) for a string old
RECURSIVE ReplaceAll(_, _, _)
ReplaceAll(s, old, by) ==
    IF s = <<>> THEN <<>>
    ELSE IF StartsWith(s, old)
    THEN by \o ReplaceAll(SubSeq(s, Len(old) + 1, Len(s)), old, by)
    ELSE <<Head(s)>> \o ReplaceAll(Tail(s), old, by)

format_uri(uri) ==
    IF StartsWith(uri, <<"rdf:">>) \/ StartsWith(uri, <<"xsd:">>) THEN uri
    ELSE IF StartsWith(uri, NAMESPACE_DOC)
    THEN ReplaceAll(uri, NAMESPACE_DOC, <<"doc:">>)
    ELSE IF StartsWith(uri, NAMESPACE_ENTITY)
    THEN ReplaceAll(uri, NAMESPACE_ENTITY, <<"entity:">>)
    ELSE IF StartsWith(uri, NAMESPACE_ONTO)
    THEN ReplaceAll(uri, NAMESPACE_ONTO, <<"onto:">>)
    ELSE <<LT>> \o uri \o <<GT>>

\* '@prefix <name> <<namespace>> .'
PrefixLine(name, namespace) ==
    <<"@", "prefix", SP, name, SP, LT>> \o namespace \o <<GT, SP, DOT>>

\* the five prefix declarations and the empty line after them
TurtleHeader ==
    << PrefixLine("rdf:", RDF_NS),
       PrefixLine("xsd:", XSD_NS),
       PrefixLine("doc:", NAMESPACE_DOC),
       PrefixLine("entity:", NAMESPACE_ENTITY),
       PrefixLine("onto:", NAMESPACE_ONTO),
       <<>> >>

\* the keys of subject_triples, in the order the dict received them
SubjectsInOrder(graph) ==
    LET first == {i \in 1..Len(graph) :
                     \A j \in 1..(i - 1) : graph[j].subject # graph[i].subject}
        firsts == SelectIdx(graph, first)
    IN  [k \in 1..Len(firsts) |-> firsts[k].subject]

\* subject_triples[subject]: the triples of the subject, in the order given
TriplesOfSubject(graph, subject) ==
    SelectIdx(graph, {i \in 1..Len(graph) : graph[i].subject = subject})

\* a line that ends with a semicolon wherever it stands in its block
TurtleLine_Semicolon(triple, last) ==
    <<SP, SP, SP, SP>> \o format_uri(triple.predicate) \o <<SP>>
        \o triple.object \o <<SP, ";">>

\* TurtleLine with every URI object formatted as predicates are
TurtleLine_Abbreviated(triple, last) ==
    LET predicate == format_uri(triple.predicate)
        obj_formatted ==
            IF StartsWith(triple.object, <<QUOTE>>) THEN triple.object
            ELSE format_uri(triple.object)
    IN  <<SP, SP, SP, SP>> \o predicate \o <<SP>> \o obj_formatted
            \o <<SP, IF last THEN DOT ELSE ";">>

\* the line of one triple of a block; last: it is the block's last triple
TurtleLine(triple, last) ==
    LET predicate == format_uri(triple.predicate)
        obj_formatted ==
            IF StartsWith(triple.object, <<QUOTE>>) THEN triple.object
            ELSE IF StartsWith(triple.object, NAMESPACE_BASE)
            THEN <<LT>> \o triple.object \o <<GT>>
            ELSE format_uri(triple.object)
    IN  <<SP, SP, SP, SP>> \o predicate \o <<SP>> \o obj_formatted
            \o <<SP, IF last THEN DOT ELSE ";">>

\* the lines of one subject: its header, its triples and an empty line
TurtleBlock(graph, subject) ==
    LET subject_triple_list == TriplesOfSubject(graph, subject)
        n == Len(subject_triple_list)
    IN  << <<LT>> \o subject \o <<GT>> >>
        \o [i \in 1..n |-> TurtleLine(subject_triple_list[i], i = n)]
        \o << <<>> >>

serialize_turtle(graph) ==
    LET subjects == SubjectsInOrder(graph)
    IN  Join(TurtleHeader
             \o Flatten([k \in 1..Len(subjects) |->
                    TurtleBlock(graph, subjects[k])]),
             <<LF>>)

\* whether serialize_rdf raises ValueError for the format
UnsupportedFormat(format) == format \notin {"turtle", "n-triples"}

serialize_rdf(graph, format) ==
    IF format = "turtle" THEN serialize_turtle(graph)
    ELSE serialize_ntriples(graph)

-----------------------------------------------------------------------------
(* rdf-generator: handler *)

\* event.get(key, default)
GetOr(ev, key, default) == IF key \in DOMAIN ev THEN ev[key] ELSE default

BUCKET_NAME == <<"documents-bucket">>
ONTOLOGY_SCHEMA_VERSION == <<"1.0">>

\* f"neptune-staging/{document_id}/data.ttl"
staging_key(document_id) ==
    <<"neptune-staging/">> \o document_id \o <<"/data.ttl">>

\* the dict of the generator's except branch
GeneratorErrorResult(ev, error) ==
    Merge(ev, [success |-> FALSE,
               error |-> error,
               stage |-> "rdf-generation"])

\* the dict of the generator's normal path
GeneratorResult(ev, key, triple_count, format) ==
    Merge(ev, [rdfS3Key |-> key,
               rdfBucket |-> BUCKET_NAME,
               tripleCount |-> triple_count,
               rdfFormat |-> format,
               ontologyVersion |-> ONTOLOGY_SCHEMA_VERSION,
               success |-> TRUE])

\* One invocation of the generator's handler, start to return.
rdf_generator_handler ==
    /\ pc = "generator"
    /\ pc' = "generated"
    /\ LET document_id == GetOr(event, "documentId", <<>>)
           text_content == GetOr(event, "textContent", <<>>)
           chunks == GetOr(event, "chunks", <<>>)
           metadata == GetOr(event, "metadata", <<>>)
           file_name == GetOr(event, "fileName", <<"unknown">>)
           graph == generate_rdf_graph(document_id, text_content, chunks,
                                       metadata, file_name, env.now)
       IN  IF document_id = <<>>
           THEN /\ result' = GeneratorErrorResult(event, "documentId is required")
                /\ UNCHANGED <<rdf_graph, rdf_content, s3_object, calls>>
           ELSE IF UnsupportedFormat(env.RDF_FORMAT)
           THEN /\ rdf_graph' = graph
                /\ result' = GeneratorErrorResult(event, "Unsupported RDF format")
                /\ UNCHANGED <<rdf_content, s3_object, calls>>
           ELSE /\ rdf_graph' = graph
                /\ rdf_content' = serialize_rdf(graph, env.RDF_FORMAT)
                /\ calls' = <<"s3.put_object">>
                /\ IF env.put_fails
                   THEN /\ result' = GeneratorErrorResult(event, "ClientError")
                        /\ UNCHANGED s3_object
                   ELSE /\ s3_object' = [found |-> TRUE,
                                         key |-> staging_key(document_id),
                                         body |-> rdf_content']
                        /\ result' = GeneratorResult(event,
                                         staging_key(document_id), Len(graph),
                                         env.RDF_FORMAT)
    /\ UNCHANGED <<event, sparql, ontology_model, triples, validation, doc, env,
                   locals>>

-----------------------------------------------------------------------------
(* Inputs of the validator: events, staged objects, endpoint answers *)

MaxItems == 3

DocId == <<"doc-1">>
StagingKey == <<"neptune-staging/", "doc-1", "/data.ttl">>

\* subjects of staged triples: a document node and a keyword node
SubjDoc == NAMESPACE_DOC \o DocId
SubjKeyword == NAMESPACE_ENTITY \o <<"alpha">>

\* Document as the ontology names it (the prefix the validator looks for),
\* Document as the builder names it, and a further ontology class
ClassHashDocument == VALIDATOR_ONTO_PREFIX \o <<"Document">>
ClassSlashDocument == NAMESPACE_ONTO \o <<"Document">>
ClassHashKeyword == VALIDATOR_ONTO_PREFIX \o <<"Keyword">>
PropHasValue == NAMESPACE_ONTO \o <<"hasValue">>
XsdString == XSD_NS \o <<"string">>

\* a staged line in the form "<s> <p> <o> ." or "<s> <p> "literal" ."
UriLine(s, p, o) ==
    <<LT>> \o s \o <<GT, SP, LT>> \o p \o <<GT, SP, LT>> \o o \o <<GT, SP, DOT>>
LiteralLine(s, p, text) ==
    <<LT>> \o s \o <<GT, SP, LT>> \o p \o <<GT, SP, QUOTE>> \o text
        \o <<QUOTE, SP, DOT>>

StagedLines ==
    UNION {{UriLine(s, RDF_TYPE, ClassHashDocument),
            UriLine(s, RDF_TYPE, ClassSlashDocument),
            LiteralLine(s, PropHasValue, <<"v">>)} : s \in {SubjDoc, SubjKeyword}}

\* a SPARQL JSON term and an answer with the given bindings
UriTerm(u) == [type |-> "uri", value |-> u]
LiteralTerm(v) == [type |-> "literal", value |-> v]
JsonAnswer(bindings) ==
    [kind |-> "json", body |-> [results |-> [bindings |-> bindings]]]

ClassBindings == {[class |-> UriTerm(c)] : c \in {ClassHashDocument, ClassHashKeyword}}

PropertyBindings ==
    {[property |-> UriTerm(PropHasValue)]}
    \cup {[property |-> UriTerm(PropHasValue), domain |-> UriTerm(d)] :
             d \in {ClassHashDocument, ClassSlashDocument}}
    \cup {[property |-> UriTerm(PropHasValue), range |-> UriTerm(XsdString)]}
    \cup {[property |-> UriTerm(PropHasValue), domain |-> UriTerm(d),
           range |-> UriTerm(XsdString)] :
             d \in {ClassHashDocument, ClassSlashDocument}}

RestrictionKinds ==
    {"cardinality", "minCardinality", "maxCardinality", "allValuesFrom",
     "someValuesFrom"}

RestrictionBindings ==
    {[class |-> UriTerm(ClassHashDocument),
      property |-> UriTerm(PropHasValue),
      restrictionType |-> LiteralTerm(<<k>>),
      value |-> v] :
        k \in RestrictionKinds,
        v \in {LiteralTerm(<<"1">>), LiteralTerm(<<"2">>), UriTerm(ClassHashKeyword)}}

\* the answers that make execute_sparql_query raise, and a body without
\* the results member
FailedAnswers == {[kind |-> "timeout"], [kind |-> "status"], [kind |-> "badjson"]}
NoResultsAnswer == [kind |-> "json", body |-> [head |-> <<>>]]

\* the event the RDF generator hands on, and events lacking a required field
UpstreamEvent ==
    [documentId |-> DocId, rdfS3Key |-> StagingKey, tripleCount |-> 3,
     success |-> TRUE]
Events ==
    {UpstreamEvent,
     [documentId |-> DocId, rdfS3Key |-> StagingKey],
     [rdfS3Key |-> StagingKey, tripleCount |-> 3],
     [documentId |-> DocId, tripleCount |-> 3],
     [documentId |-> <<>>, rdfS3Key |-> StagingKey]}

StagedObject(lines) == [found |-> TRUE, body |-> Join(lines, <<LF>>)]
MissingObject == [found |-> FALSE]

\* validation inputs: staged lines and schema rows, MaxItems in total
InitValidation ==
    /\ event = UpstreamEvent
    /\ \E nl \in 0..MaxItems, nc \in 0..MaxItems, np \in 0..MaxItems,
          nr \in 0..MaxItems :
        /\ nl + nc + np + nr <= MaxItems
        /\ \E lines \in [1..nl -> StagedLines] :
               s3_object = StagedObject(lines)
        /\ \E cs \in [1..nc -> ClassBindings],
              ps \in [1..np -> PropertyBindings],
              rs \in [1..nr -> RestrictionBindings] :
               sparql = <<JsonAnswer(cs), JsonAnswer(ps), JsonAnswer(rs)>>

\* degraded acquisition: each query may fail or lack its results
InitFetch ==
    /\ event = UpstreamEvent
    /\ \E lines \in [1..1 -> StagedLines] : s3_object = StagedObject(lines)
    /\ \E a1 \in FailedAnswers \cup {NoResultsAnswer}
                 \cup {JsonAnswer(<<c>>) : c \in ClassBindings},
          a2 \in FailedAnswers \cup {NoResultsAnswer}
                 \cup {JsonAnswer(<<p>>) : p \in PropertyBindings},
          a3 \in FailedAnswers \cup {NoResultsAnswer}
                 \cup {JsonAnswer(<<r>>) : r \in RestrictionBindings} :
           sparql = <<a1, a2, a3>>

\* input errors: a required field or the staged object is missing
InitInput ==
    /\ event \in Events
    /\ \/ s3_object = MissingObject
       \/ \E lines \in [1..1 -> StagedLines] : s3_object = StagedObject(lines)
    /\ sparql = <<JsonAnswer(<<>>), JsonAnswer(<<>>), JsonAnswer(<<>>)>>

\* a node declared again: three staged lines, one of them given twice,
\* and one restriction row
InitRepeats ==
    /\ event = UpstreamEvent
    /\ \E lines \in [1..3 -> StagedLines] :
        /\ \E i, j \in 1..3 : i # j /\ lines[i] = lines[j]
        /\ s3_object = StagedObject(lines)
    /\ \E r \in RestrictionBindings :
           sparql = <<JsonAnswer(<<>>), JsonAnswer(<<>>), JsonAnswer(<<r>>)>>

Init ==
    /\ pc = "validator"
    /\ InitValidation \/ InitFetch \/ InitInput \/ InitRepeats
    /\ ontology_model = None
    /\ triples = None
    /\ validation = None
    /\ result = None
    /\ doc = None
    /\ rdf_graph = None
    /\ rdf_content = None
    /\ env = None
    /\ calls = <<>>
    /\ locals = None

Next == handler

Spec == Init /\ [][Next]_vars

-----------------------------------------------------------------------------
(* The builder's output staged in the fully-qualified form and read back *)

MaxChunks == 2

\* texts, one atom per character
TextHello == <<"H", "e", "l", "l", "o", SP, "A", "c", "m", "e", SP, "C", "o", "r", "p", SP, "t", "o", "d", "a", "y">>
TextQuoted == <<"H", "e", SP, "s", "a", "i", "d", SP, QUOTE, "S", "t", "o", "p", QUOTE, DOT>>

DocumentIds == {DocId, <<"my", SP, "doc">>}

FileNames ==
    {<<"report", DOT, "pdf">>,
     <<"a", QUOTE, "b">>,
     <<"say", SP, QUOTE, "hi", QUOTE>>,
     <<"a", SP, SP, "b">>,
     <<"two", LF, "lines", BACKSLASH>>}

Chunks ==
    {[chunkId |-> 0, text |-> TextHello, startPosition |-> 0, length |-> 22],
     [chunkId |-> 1, text |-> TextQuoted, startPosition |-> 20, length |-> 16],
     [text |-> TextHello]}

Metadatas ==
    {<<>>,
     [keywords |-> <<"alpha", ",", SP, "beta">>],
     [keywords |-> <<"alpha", ",", "alpha">>],
     [keywords |-> <<"a", ",", ",", "b">>, documentType |-> <<"report">>],
     [author |-> <<"Jane", SP, "Doe">>, documentType |-> <<>>],
     [keywords |-> <<"graph", SP, "db">>, author |-> <<"O", QUOTE, "Neil">>]}

\* what datetime.utcnow().isoformat() may return: with and without microseconds
Timestamps ==
    {<<"2024-01-01T00:00:00">>, <<"2024-01-01T00:00:00", DOT, "000123">>}

InitRoundTrip ==
    /\ pc = "builder"
    /\ \E id \in DocumentIds, text \in {TextHello, TextQuoted},
          chunks \in BoundedSeq(Chunks, MaxChunks), metadata \in Metadatas,
          name \in FileNames, now \in Timestamps :
           doc = [document_id |-> id, text_content |-> text, chunks |-> chunks,
                  metadata |-> metadata, file_name |-> name, now |-> now]
    /\ event = None
    /\ s3_object = None
    /\ sparql = None
    /\ ontology_model = None
    /\ triples = None
    /\ validation = None
    /\ result = None
    /\ rdf_graph = None
    /\ rdf_content = None
    /\ env = None
    /\ calls = <<>>
    /\ locals = None

\* generate_rdf_graph on the document
BuildGraph ==
    /\ pc = "builder"
    /\ pc' = "built"
    /\ rdf_graph' = generate_rdf_graph(doc.document_id, doc.text_content,
                                       doc.chunks, doc.metadata, doc.file_name,
                                       doc.now)
    /\ UNCHANGED <<event, s3_object, sparql, ontology_model, triples,
                   validation, result, doc, rdf_content, env, calls, locals>>

\* serialize_ntriples on the graph
SerializeNTriples ==
    /\ pc = "built"
    /\ pc' = "serialized"
    /\ rdf_content' = serialize_ntriples(rdf_graph)
    /\ UNCHANGED <<event, s3_object, sparql, ontology_model, triples,
                   validation, result, doc, rdf_graph, env, calls, locals>>

\* parse_turtle_simple on the text
ParseStaged ==
    /\ pc = "serialized"
    /\ pc' = "parsed"
    /\ triples' = parse_turtle_simple(rdf_content)
    /\ UNCHANGED <<event, s3_object, sparql, ontology_model, validation,
                   result, doc, rdf_graph, rdf_content, env, calls, locals>>

NextRoundTrip == BuildGraph \/ SerializeNTriples \/ ParseStaged

SpecRoundTrip == InitRoundTrip /\ [][NextRoundTrip]_vars

-----------------------------------------------------------------------------
(* Invocations of the rdf-generator's handler *)

\* a dict with the one key, for each of the values, and the dict without it
OptionalField(key, values) == {<<>>} \cup {[k \in {key} |-> v] : v \in values}

\* the events of the text-extraction stage: each field present or absent,
\* the identifier also empty or holding a quote
GeneratorEvents ==
    {Merge(Merge(Merge(Merge(id, [textContent |-> TextQuoted]), ch), md), fn) :
        id \in OptionalField("documentId", {<<>>, DocId, <<"a", QUOTE, "b">>}),
        ch \in OptionalField("chunks", BoundedSeq(Chunks, MaxChunks)),
        md \in OptionalField("metadata", Metadatas),
        fn \in OptionalField("fileName", {<<"two", LF, "lines", BACKSLASH>>})}

\* RDF_FORMAT as deployed, the clock, and whether S3 accepts the object
Environments ==
    {[RDF_FORMAT |-> f, now |-> <<"2024-01-01T00:00:00">>, put_fails |-> FALSE] :
        f \in {"turtle", "n-triples", "rdf-xml"}}
    \cup {[RDF_FORMAT |-> "turtle", now |-> <<"2024-01-01T00:00:00">>,
           put_fails |-> TRUE]}

InitGenerator ==
    /\ pc = "generator"
    /\ event \in GeneratorEvents
    /\ env \in Environments
    /\ s3_object = MissingObject
    /\ sparql = None
    /\ ontology_model = None
    /\ triples = None
    /\ validation = None
    /\ result = None
    /\ doc = None
    /\ rdf_graph = None
    /\ rdf_content = None
    /\ calls = <<>>
    /\ locals = None

NextGenerator == rdf_generator_handler

SpecGenerator == InitGenerator /\ [][NextGenerator]_vars

-----------------------------------------------------------------------------
(* Reading a finished run *)

\* the handler has returned
Returned == pc = "validated"

\* the handler got as far as validate_against_ontology
Validated == Returned /\ validation # None

\* validate_against_ontology returned a ValidationResult
Completed == Validated /\ ~validation.raised

\* the instances of the run, as validate_against_ontology groups them
RunInstances == GroupInstances(triples)

\* the number of entries of list that satisfy Test
CountOf(list, Test(_)) == Cardinality({i \in 1..Len(list) : Test(list[i])})

\* the violations and warnings the run handed back
ReportedViolations == IF Completed THEN result.violations ELSE <<>>
ReportedWarnings == IF Completed THEN result.warnings ELSE <<>>

-----------------------------------------------------------------------------
(* Claims *)

\* C1: in every validation run that completes, the reported status is FAILED
\* exactly when violations is non-empty, WARNING exactly when violations is
\* empty and warnings is not, and PASSED exactly when both are empty.
C1_StatusFromLists ==
    Completed =>
        /\ result.validationStatus = "FAILED" <=> validation.violations # <<>>
        /\ result.validationStatus = "WARNING" <=>
               (validation.violations = <<>> /\ validation.warnings # <<>>)
        /\ result.validationStatus = "PASSED" <=>
               (validation.violations = <<>> /\ validation.warnings = <<>>)

\* C1 witness: a completed run with violations and warnings, reported FAILED
C1_Witness ==
    /\ Completed
    /\ validation.violations # <<>>
    /\ validation.warnings # <<>>
    /\ result.validationStatus = "FAILED"

\* C2 as claimed: a run reports success = false exactly when its status is
\* FAILED.
C2_OnlyFailedFails ==
    Returned => (result.success = FALSE <=> result.validationStatus = "FAILED")

\* C2 amended: WARNING and PASSED report success = true, FAILED reports
\* success = false, and the only other status reporting success = false is
\* ERROR, which the handler returns when it catches an exception.
C2_FailedOrErrorFails ==
    Returned =>
        /\ result.validationStatus \in {"PASSED", "WARNING", "FAILED", "ERROR"}
        /\ result.success = FALSE <=>
               result.validationStatus \in {"FAILED", "ERROR"}
        /\ result.validationStatus \in {"PASSED", "WARNING"} =>
               result.success = TRUE

\* C2 witness: a run ending in WARNING that reports success
C2_Witness ==
    /\ Returned
    /\ result.validationStatus = "WARNING"
    /\ result.success = TRUE

\* C3 as claimed, for the runs in which validation returns: an instance
\* declaring a class with a cardinality restriction of value 1 on P gets
\* exactly one cardinality_violation for P when it carries zero or two values
\* for P, and none when it carries exactly one.
C3_ExactlyOneViolation ==
    Completed =>
        \A i \in 1..Len(RunInstances) :
            \A r \in Range(ontology_model.restrictions) :
                LET inst == RunInstances[i]
                    n == Len(PropertyValues(inst, r.property))
                    IsFor(v) == /\ v.type = "cardinality_violation"
                                /\ v.instance = inst.uri
                                /\ v.property = r.property
                    emitted == CountOf(result.violations, IsFor)
                IN  (/\ r.restrictionType = <<"cardinality">>
                     /\ r.value = <<"1">>
                     /\ r.class \in Range(inst.types))
                    => /\ n \in {0, 2} => emitted = 1
                       /\ n = 1 => emitted = 0

\* C4 as claimed: an instance declaring a class with a minCardinality
\* restriction of value m on P gets a min_cardinality_violation for P if and
\* only if it carries fewer than m values, with actual the value count and
\* min_expected m.
C4_MinCardinality ==
    Validated =>
        \A i \in 1..Len(RunInstances) :
            \A r \in Range(ontology_model.restrictions) :
                LET inst == RunInstances[i]
                    n == Len(PropertyValues(inst, r.property))
                    IsFor(v) == /\ v.type = "min_cardinality_violation"
                                /\ v.instance = inst.uri
                                /\ v.property = r.property
                                /\ v.min_expected = IntOf(r.value)
                IN  (/\ r.restrictionType = <<"minCardinality">>
                     /\ IsIntLiteral(r.value)
                     /\ r.class \in Range(inst.types))
                    => /\ CountOf(ReportedViolations, IsFor) > 0
                           <=> n < IntOf(r.value)
                       /\ \A k \in 1..Len(ReportedViolations) :
                              IsFor(ReportedViolations[k])
                                  => ReportedViolations[k].actual = n

\* C5: validating a non-empty triple list against the empty Schema Model
\* yields no violation and no warning, and status PASSED.
C5_EmptyModelPasses ==
    (Validated /\ ontology_model = EmptyModel /\ triples # <<>>) =>
        /\ ~validation.raised
        /\ validation.violations = <<>>
        /\ validation.warnings = <<>>
        /\ result.validationStatus = "PASSED"

\* C5 witness: a query failed, the staged graph declares a type, and the run
\* passed
C5_Witness ==
    /\ Validated
    /\ \E q \in 1..3 : QueryRaises(sparql[q])
    /\ ontology_model = EmptyModel
    /\ \E k \in 1..Len(triples) : triples[k][2] = RDF_TYPE
    /\ result.validationStatus = "PASSED"

\* C6 as claimed, for the runs in which validation returns: a declared type in
\* the namespace the Graph Builder uses for its classes, absent from a
\* non-empty class set, gets an undefined_class warning; an empty class set
\* gets none.
C6_UndefinedClassWarned ==
    Completed =>
        LET defined == {ontology_model.classes[k].class :
                            k \in 1..Len(ontology_model.classes)}
        IN  /\ \A i \in 1..Len(RunInstances) :
                   \A c \in Range(RunInstances[i].types) :
                       (/\ StartsWith(c, NAMESPACE_ONTO)
                        /\ defined # {}
                        /\ c \notin defined)
                       => \E k \in 1..Len(result.warnings) :
                              /\ result.warnings[k].type = "undefined_class"
                              /\ result.warnings[k].instance = RunInstances[i].uri
                              /\ result.warnings[k].class = c
            /\ defined = {} =>
                   \A k \in 1..Len(result.warnings) :
                       result.warnings[k].type # "undefined_class"

\* C7 as claimed, for the runs in which validation returns: for a property the
\* instance carries and a domain the Schema Model declares for it, there is a
\* domain_mismatch warning naming that domain when the type list lacks the
\* domain, and none when the type list contains it.
C7_DomainChecked ==
    Completed =>
        \A i \in 1..Len(RunInstances) :
            \A d \in Range(ontology_model.properties) :
                LET inst == RunInstances[i]
                    IsFor(w) == /\ w.type = "domain_mismatch"
                                /\ w.instance = inst.uri
                                /\ w.property = d.property
                                /\ w.expected_domain = d.domain
                IN  (/\ "domain" \in DOMAIN d
                     /\ d.domain # <<>>
                     /\ PropertyValues(inst, d.property) # <<>>)
                    => (CountOf(result.warnings, IsFor) > 0
                            <=> d.domain \notin Range(inst.types))

\* C8 as claimed: when one of the three queries fails by timeout, non-success
\* status or malformed result, the Schema Model is the empty one.
C8_FailedFetchIsEmpty ==
    (Validated /\ \E q \in 1..3 :
                      \/ QueryRaises(sparql[q])
                      \/ "results" \notin DOMAIN sparql[q].body)
        => ontology_model = EmptyModel

\* C9 as claimed: validate_against_ontology returns a ValidationResult for
\* every triple list and every Schema Model, so the handler never answers a
\* finding with status ERROR.
C9_NeverRaises ==
    Validated => (~validation.raised /\ result.validationStatus # "ERROR")

\* the inverse of escape_literal
RECURSIVE Unescape(_)
Unescape(text) ==
    IF text = <<>> THEN <<>>
    ELSE IF Head(text) = BACKSLASH /\ Len(text) >= 2
    THEN (CASE text[2] = "n" -> <<LF>>
            [] text[2] = "r" -> <<CR>>
            [] text[2] = "t" -> <<TAB>>
            [] OTHER -> <<text[2]>>)
         \o Unescape(SubSeq(text, 3, Len(text)))
    ELSE <<Head(text)>> \o Unescape(Tail(text))

\* the text between a literal's delimiting quotes
LiteralContent(object) ==
    SubSeq(object, 2, Max({i \in 1..Len(object) : object[i] = QUOTE}) - 1)

\* whether the parsed triple t is the built triple b: the same subject, the
\* predicate with rdf:type expanded, and as object the URI, or the literal's
\* value with or without its escapes
Recovers(t, b) ==
    /\ t[1] = b.subject
    /\ t[2] = (IF b.predicate = RdfTypePrefixed THEN RDF_TYPE ELSE b.predicate)
    /\ IF StartsWith(b.object, <<QUOTE>>)
       THEN t[3] \in {LiteralContent(b.object), Unescape(LiteralContent(b.object))}
       ELSE t[3] = b.object

\* C10 as claimed: parsing the fully-qualified serialization of the builder's
\* output recovers the built triples, none lost and none altered.
C10_RoundTrip ==
    pc = "parsed" =>
        /\ \A k \in 1..Len(rdf_graph) :
               \E j \in 1..Len(triples) : Recovers(triples[j], rdf_graph[k])
        /\ \A j \in 1..Len(triples) :
               \E k \in 1..Len(rdf_graph) : Recovers(triples[j], rdf_graph[k])

-----------------------------------------------------------------------------
(* Calls of extract_entities_simple on chunk texts *)

MaxWords == 3

\* words a chunk text is made of: capitalized words longer than 3, a
\* lowercase word, a capitalized word of length 3, an acronym, a
\* capitalized word run into an underscore, and one followed by a comma
Vocabulary ==
    {<<"H", "e", "l", "l", "o">>,
     <<"A", "c", "m", "e">>,
     <<"C", "o", "r", "p">>,
     <<"t", "o", "d", "a", "y">>,
     <<"T", "h", "e">>,
     <<"N", "A", "S", "A">>,
     <<"R", "o", "m", "e", "_", "x">>,
     <<"O", "s", "l", "o", ",">>}

\* how a text may open: with nothing, or with four different entities
Openings ==
    {<<>>,
     << <<"L", "i", "m", "a">>, <<"K", "i", "l", "o">>,
        <<"E", "c", "h", "o">>, <<"G", "o", "l", "f">> >>}

InitEntities ==
    /\ pc = "extractor"
    /\ \/ doc = [text |-> TextHello]
       \/ \E opening \in Openings, words \in BoundedSeq(Vocabulary, MaxWords) :
              doc = [text |-> Join(opening \o words, <<SP>>)]
    /\ event = None
    /\ s3_object = None
    /\ sparql = None
    /\ ontology_model = None
    /\ triples = None
    /\ validation = None
    /\ result = None
    /\ rdf_graph = None
    /\ rdf_content = None
    /\ env = None
    /\ calls = <<>>
    /\ locals = None

\* extract_entities_simple on the text
ExtractEntities ==
    /\ pc = "extractor"
    /\ pc' = "extracted"
    /\ result' = extract_entities_simple(doc.text)
    /\ UNCHANGED <<event, s3_object, sparql, ontology_model, triples,
                   validation, doc, rdf_graph, rdf_content, env, calls, locals>>

NextEntities == ExtractEntities

SpecEntities == InitEntities /\ [][NextEntities]_vars

-----------------------------------------------------------------------------
(* Invocations of either handler *)

InitHandlers == InitGenerator \/ Init

NextHandlers == rdf_generator_handler \/ handler

SpecHandlers == InitHandlers /\ [][NextHandlers]_vars

-----------------------------------------------------------------------------
(* Claims about the graph the rdf-generator builds *)

\* the generator's handler returned
Generated == pc = "generated"

\* the generator's handler returned after it built a graph
Built == Generated /\ rdf_graph # None

\* the object is a literal: it opens with a double quote
IsLiteral(object) == StartsWith(object, <<QUOTE>>)

\* what stands between the delimiting quotes of a literal
Between(object) ==
    SubSeq(object, 2, Max({i \in 1..Len(object) : object[i] = QUOTE}) - 1)

\* no raw quote, line feed, carriage return or tab, and every backslash
\* opens one of the five escape sequences
RECURSIVE WellEscaped(_)
WellEscaped(content) ==
    IF content = <<>> THEN TRUE
    ELSE IF Head(content) = BACKSLASH
    THEN /\ Len(content) >= 2
         /\ content[2] \in {BACKSLASH, QUOTE, "n", "r", "t"}
         /\ WellEscaped(SubSeq(content, 3, Len(content)))
    ELSE /\ Head(content) \notin {QUOTE, LF, CR, TAB}
         /\ WellEscaped(Tail(content))

\* C11: in every graph the builder returns, the content of every literal
\* object between its delimiting quotes is escaped: it holds no raw double
\* quote, backslash, line feed, carriage return or tab.
C11_LiteralsEscaped ==
    Built =>
        \A k \in 1..Len(rdf_graph) :
            IsLiteral(rdf_graph[k].object)
                => WellEscaped(Between(rdf_graph[k].object))

\* the keyword field the builder reads: metadata.get('keywords')
KeywordField ==
    IF "metadata" \in DOMAIN event /\ "keywords" \in DOMAIN event.metadata
    THEN event.metadata.keywords ELSE <<>>

\* the parts of the comma-split field, none for an absent or empty field
KeywordParts == IF KeywordField = <<>> THEN <<>> ELSE SplitOn(KeywordField, ",")

\* the number of triples the graph owes to the keyword field: what it has
\* beyond the graph of the same event without that field
KeywordTripleCount ==
    Len(rdf_graph)
    - Len(generate_rdf_graph(
          GetOr(event, "documentId", <<>>), GetOr(event, "textContent", <<>>),
          GetOr(event, "chunks", <<>>),
          [k \in DOMAIN GetOr(event, "metadata", <<>>) \ {"keywords"} |->
              event.metadata[k]],
          GetOr(event, "fileName", <<"unknown">>), env.now))

\* C12 as stated: a field of N keywords accounts for exactly 2*N + 1 triples.
C12_TwoPerKeywordPlusLink ==
    Built => KeywordTripleCount = 2 * Len(KeywordParts) + 1

\* C12, amended: a keyword field that splits into N parts (N = 0 when the
\* field is absent or empty) accounts for exactly 3*N triples, which follow
\* the five Document triples in the order of the split: for the k-th part
\* the Keyword type triple, the value triple and the Document-to-Keyword
\* link of the node named by the trimmed, percent-encoded part.
C12_ThreePerKeyword ==
    Built =>
        /\ KeywordTripleCount = 3 * Len(KeywordParts)
        /\ \A k \in 1..Len(KeywordParts) :
            LET keyword == Strip(KeywordParts[k], Whitespace)
                uri == NAMESPACE_ENTITY \o quote(keyword)
                at == 5 + 3 * (k - 1)
            IN  /\ rdf_graph[at + 1]
                       = Triple(uri, RdfTypePrefixed, Onto("Keyword"))
                /\ rdf_graph[at + 2].subject = uri
                /\ rdf_graph[at + 2].predicate = Onto("hasValue")
                /\ rdf_graph[at + 3].predicate = Onto("hasKeyword")
                /\ rdf_graph[at + 3].object = uri

\* a graph was built for a field of two different keywords
C12_Witness ==
    /\ Built
    /\ Len(KeywordParts) = 2
    /\ KeywordParts[1] # KeywordParts[2]
    /\ KeywordTripleCount = 6

\* the parts that are not empty once trimmed
NonEmptyKeywords ==
    SelectIdx(KeywordParts,
              {k \in 1..Len(KeywordParts) :
                  Strip(KeywordParts[k], Whitespace) # <<>>})

\* C19: keyword triples come from non-empty tokens only: the graph has one
\* Document-to-Keyword link per non-empty token, and no Keyword type triple,
\* value triple or link for the node of the empty token.
C19_NoEmptyKeyword ==
    Built =>
        /\ CountOf(rdf_graph, LAMBDA t : t.predicate = Onto("hasKeyword"))
               = Len(NonEmptyKeywords)
        /\ \A k \in 1..Len(rdf_graph) :
            /\ rdf_graph[k].subject # NAMESPACE_ENTITY
            /\ rdf_graph[k].object # NAMESPACE_ENTITY

-----------------------------------------------------------------------------
(* Claims about extract_entities_simple *)

Extracted == pc = "extracted"

\* where a capitalized word longer than 3 stands in the text
LongCapitalizedAt ==
    {<<i, j>> \in (1..Len(doc.text)) \X (1..Len(doc.text)) :
        IsCapitalizedWord(doc.text, i, j) /\ j - i + 1 > 3}

\* the different such words, and where each stands first
LongCapitalized == {SubSeq(doc.text, at[1], at[2]) : at \in LongCapitalizedAt}
FirstSeen(word) ==
    Min({at[1] : at \in {a \in LongCapitalizedAt :
                            SubSeq(doc.text, a[1], a[2]) = word}})

\* C13: the mentions of a text are at most 5, pairwise distinct, each a
\* capitalized word longer than 3 that stands in the text, in first-seen
\* order, and they are the first 5 such words: a word left out stands
\* first after all five kept; "Hello Acme Corp today" gives Hello, Acme, Corp.
C13_FirstFiveDistinct ==
    Extracted =>
        /\ Len(result) <= 5
        /\ \A a, b \in 1..Len(result) : a < b => result[a] # result[b]
        /\ \A a \in 1..Len(result) : result[a] \in LongCapitalized
        /\ \A a, b \in 1..Len(result) :
               a < b => FirstSeen(result[a]) < FirstSeen(result[b])
        /\ \A word \in LongCapitalized \ Range(result) :
               /\ Len(result) = 5
               /\ \A a \in 1..5 : FirstSeen(result[a]) < FirstSeen(word)
        /\ doc.text = TextHello
               => result = << <<"H", "e", "l", "l", "o">>,
                              <<"A", "c", "m", "e">>,
                              <<"C", "o", "r", "p">> >>

\* five mentions were kept of a text that repeats one of them and holds a
\* sixth capitalized word longer than 3
C13_Witness ==
    /\ Extracted
    /\ Len(result) = 5
    /\ Cardinality(LongCapitalized) > 5
    /\ Cardinality({at \in LongCapitalizedAt :
                       SubSeq(doc.text, at[1], at[2]) = result[5]}) > 1

-----------------------------------------------------------------------------
(* Claims about the handlers' input errors and pass-through *)

\* the event lacks the field, or holds the empty string for it
Lacks(key) == key \notin DOMAIN event \/ event[key] = <<>>

\* C14: an event without a document identifier makes the generator's
\* handler return success = false with an error, no graph built and nothing
\* sent to S3; an event without a document identifier or without rdfS3Key
\* makes the validator's handler return an error result with nothing
\* downloaded, parsed, fetched or validated.
C14_MissingIdentifier ==
    /\ (Generated /\ Lacks("documentId"))
           => /\ result.success = FALSE
              /\ "error" \in DOMAIN result
              /\ rdf_graph = None
              /\ rdf_content = None
              /\ s3_object = MissingObject
              /\ calls = <<>>
    /\ locals = None
    /\ (Returned /\ (Lacks("documentId") \/ Lacks("rdfS3Key")))
           => /\ result.success = FALSE
              /\ result.validationStatus = "ERROR"
              /\ "error" \in DOMAIN result
              /\ triples = None
              /\ ontology_model = None
              /\ validation = None
              /\ calls = <<>>
    /\ locals = None

\* the generator returned for an event that has chunks and metadata but
\* no document identifier
C14_Witness ==
    /\ Generated
    /\ "documentId" \notin DOMAIN event
    /\ "chunks" \in DOMAIN event /\ Len(event.chunks) > 0
    /\ "metadata" \in DOMAIN event
    /\ result.success = FALSE

\* the graph links the Document node to a Chunk node
HasChunkLink ==
    \E k \in 1..Len(rdf_graph) : rdf_graph[k].predicate = Onto("hasChunk")

\* C15: an event without chunks (the list absent or empty) makes the
\* generator's handler report an error and stage nothing, so every staged
\* graph links its Document node to at least one Chunk node.
C15_ChunksRequired ==
    /\ (Generated /\ ("chunks" \notin DOMAIN event \/ event.chunks = <<>>))
           => /\ result.success = FALSE
              /\ s3_object = MissingObject
    /\ (Generated /\ s3_object # MissingObject) => HasChunkLink

\* C16 as stated: the validator's output holds every field of the input
\* event with the value the event gave it.
C16_EveryFieldUnchanged ==
    Returned =>
        \A k \in DOMAIN event : k \in DOMAIN result /\ result[k] = event[k]

\* the fields the validator's handler sets itself on each path
ValidatorFields ==
    IF result.validationStatus = "ERROR"
    THEN {"validationStatus", "success", "error", "stage"}
    ELSE {"validationStatus", "violations", "warnings", "validationChecks",
          "success"}

\* C16, amended: the validator's output holds every field of the input
\* event, unchanged unless it is one the handler sets itself (success and
\* validationStatus on both paths; violations, warnings and
\* validationChecks on the normal path; error and stage on the error
\* path): those hold the validator's values.
C16_OtherFieldsUnchanged ==
    Returned =>
        /\ ValidatorFields \subseteq DOMAIN result
        /\ \A k \in DOMAIN event \ ValidatorFields :
               k \in DOMAIN result /\ result[k] = event[k]
        /\ result.success = (result.validationStatus \in {"PASSED", "WARNING"})

\* a run that failed validation for an event whose success field was true
C16_Witness ==
    /\ Returned
    /\ result.validationStatus = "FAILED"
    /\ "success" \in DOMAIN event /\ event.success = TRUE
    /\ result.success = FALSE
    /\ result.tripleCount = event.tripleCount

-----------------------------------------------------------------------------
(* Claims about repeated declarations and unenforced restrictions *)

\* the list without the triples it already holds further up
Dedup(ts) ==
    SelectIdx(ts, {i \in 1..Len(ts) : \A j \in 1..(i - 1) : ts[j] # ts[i]})

\* C17: re-emitting triples a list already holds changes nothing in the
\* report: validating the list gives the same violations, the same warnings
\* and the same status as validating it without the repetitions.
C17_RepeatsHarmless ==
    Completed =>
        LET once == validate_against_ontology(Dedup(triples), ontology_model)
        IN  /\ ~once.raised
            /\ Range(once.violations) = Range(result.violations)
            /\ Range(once.warnings) = Range(result.warnings)
            /\ StatusOf(once.violations, once.warnings)
                   = result.validationStatus

\* the restriction is of a kind Check 3 enforces: minCardinality, or an
\* exact cardinality of 1
Enforced(r) ==
    /\ {"restrictionType", "value"} \subseteq DOMAIN r
    /\ \/ r.restrictionType = <<"minCardinality">>
       \/ r.restrictionType = <<"cardinality">> /\ r.value = <<"1">>

\* the schema model with the enforced restrictions only
EnforcedOnly(model) ==
    [model EXCEPT !.restrictions =
        SelectIdx(model.restrictions,
                  {i \in 1..Len(model.restrictions) :
                      Enforced(model.restrictions[i])})]

-----------------------------------------------------------------------------
(* Claims about the compact serialization *)

\* the handler serialized its graph in the compact form
SerializedTurtle ==
    Generated /\ rdf_content # None /\ env.RDF_FORMAT = "turtle"

\* the lines of the text
TurtleLines == SplitOn(rdf_content, LF)

\* where the statement blocks open: the lines, after the prefix
\* declarations, that start with a bracket
BlockHeads(lines) ==
    {i \in (Len(TurtleHeader) + 1)..Len(lines) :
        lines[i] # <<>> /\ lines[i][1] = LT}

\* the predicate-object lines: those that start with a blank
PropertyLines(lines) ==
    {i \in (Len(TurtleHeader) + 1)..Len(lines) :
        lines[i] # <<>> /\ lines[i][1] = SP}

\* the subjects of the graph, where each first occurs, and its triples
GraphSubjects == {rdf_graph[k].subject : k \in 1..Len(rdf_graph)}
FirstTriple(subject) ==
    Min({k \in 1..Len(rdf_graph) : rdf_graph[k].subject = subject})
TriplesAt(subject) ==
    {k \in 1..Len(rdf_graph) : rdf_graph[k].subject = subject}

\* the subject a block head names
HeadSubject(line) == SubSeq(line, 2, Len(line) - 1)

\* C20: the compact text opens with the prefix declarations; every subject
\* of the graph has exactly one block; the blocks stand in first-seen
\* subject order; a block holds one line per triple of its subject, in the
\* order the triples were given, each but the last ending with a semicolon
\* and the last with a period, and an empty line closes it; there are as
\* many predicate-object lines as triples.
C20_TurtleBlocks ==
    SerializedTurtle =>
        LET lines == TurtleLines
            heads == BlockHeads(lines)
        IN  /\ SubSeq(lines, 1, Len(TurtleHeader)) = TurtleHeader
            /\ Cardinality(heads) = Cardinality(GraphSubjects)
            /\ \A i \in heads :
                /\ lines[i][Len(lines[i])] = GT
                /\ HeadSubject(lines[i]) \in GraphSubjects
            /\ \A i, j \in heads :
                   i < j => FirstTriple(HeadSubject(lines[i]))
                                < FirstTriple(HeadSubject(lines[j]))
            /\ \A i \in heads :
                LET mine == TriplesAt(HeadSubject(lines[i]))
                    n == Cardinality(mine)
                IN  /\ i + n + 1 <= Len(lines)
                    /\ lines[i + n + 1] = <<>>
                    /\ \A k \in mine :
                        LET nth == Cardinality({m \in mine : m <= k})
                            line == lines[i + nth]
                        IN  /\ StartsWith(line,
                                   <<SP, SP, SP, SP>>
                                   \o format_uri(rdf_graph[k].predicate)
                                   \o <<SP>>)
                            /\ line[Len(line) - 1] = SP
                            /\ line[Len(line)] = IF nth = n THEN DOT ELSE ";"
            /\ Cardinality(PropertyLines(lines)) = Len(rdf_graph)

\* a graph of three subjects or more was serialized in the compact form,
\* the triples of one subject standing apart in it
C20_Witness ==
    /\ SerializedTurtle
    /\ Cardinality(GraphSubjects) >= 3
    /\ \E i, j, k \in 1..Len(rdf_graph) :
        /\ i < j /\ j < k
        /\ rdf_graph[i].subject = rdf_graph[k].subject
        /\ rdf_graph[i].subject # rdf_graph[j].subject


-----------------------------------------------------------------------------
(* Claims C21 to C30 *)

-----------------------------------------------------------------------------
(* serialize_rdf on triples of every shape of term *)

MaxTriples == 2

\* a URI outside the pipeline's namespaces
ExternalUri(name) == <<"http://example.org/">> \o <<name>>

\* triples with an object of each kind: under the ontology, entity and
\* document namespaces, a prefixed name, an outside URI, a literal
SampleTriples ==
    {Triple(s, p, o) :
        s \in {NAMESPACE_DOC \o DocId, ExternalUri("s")},
        p \in {RdfTypePrefixed, Onto("mentions"), ExternalUri("p")},
        o \in {Onto("Entity"), NAMESPACE_ENTITY \o <<"Acme">>,
               NAMESPACE_DOC \o DocId, <<"xsd:", "string">>,
               ExternalUri("x"), PlainLiteral(<<"v">>)}}

InitSerialize ==
    /\ pc = "serializer"
    /\ rdf_graph \in BoundedSeq(SampleTriples, MaxTriples) \ {<<>>}
    /\ env \in {[RDF_FORMAT |-> f] : f \in {"turtle", "n-triples", "rdf-xml"}}
    /\ event = None
    /\ s3_object = None
    /\ sparql = None
    /\ ontology_model = None
    /\ triples = None
    /\ validation = None
    /\ result = None
    /\ doc = None
    /\ rdf_content = None
    /\ calls = <<>>
    /\ locals = None

\* serialize_rdf on the graph, in the format of the environment
SerializeGraph ==
    /\ pc = "serializer"
    /\ pc' = "rendered"
    /\ IF UnsupportedFormat(env.RDF_FORMAT)
       THEN /\ result' = [raised |-> "ValueError"]
            /\ UNCHANGED rdf_content
       ELSE /\ rdf_content' = serialize_rdf(rdf_graph, env.RDF_FORMAT)
            /\ UNCHANGED result
    /\ UNCHANGED <<event, s3_object, sparql, ontology_model, triples,
                   validation, doc, rdf_graph, env, calls, locals>>

NextSerialize == SerializeGraph

SpecSerialize == InitSerialize /\ [][NextSerialize]_vars

-----------------------------------------------------------------------------
(* parse_turtle_simple on lines of every shape *)

MaxLines == 2


\* lines a staged text may hold: statements with a URI and with a literal
\* object, a literal with two blanks inside, tokens that open a bracket and
\* do not close it, a comment, a directive, a blank line, a line of two
\* tokens, a statement without an object, and the head and a continuation
\* line of a compact block
SampleLines ==
    { <<LT, "s", GT, SP, LT, "p", GT, SP, LT, "o", GT, SP, DOT>>,
      <<LT, "s", GT, SP, LT, "p", GT, SP, QUOTE, "v", QUOTE, SP, DOT>>,
      <<LT, "s", GT, SP, LT, "p", GT, SP, QUOTE, "a", SP, SP, "b", QUOTE, SP, DOT>>,
      <<SP, SP, LT, "t", GT, TAB, LT, "p", GT, SP, LT, "o", GT, DOT, SP>>,
      <<LT, "s", SP, LT, "p", SP, "o", SP, DOT>>,
      <<"#", SP, LT, "s", GT, SP, LT, "p", GT, SP, LT, "o", GT, SP, DOT>>,
      <<"@", "prefix", SP, "d:", SP, LT, "x", GT, SP, DOT>>,
      <<SP>>,
      <<LT, "s", GT, SP, LT, "p", GT>>,
      <<LT, "s", GT, SP, LT, "p", GT, SP, DOT>>,
      <<LT, "s", GT>>,
      <<SP, SP, SP, SP, "onto:", "p", SP, QUOTE, "v", QUOTE, SP, ";">> }

InitParse ==
    /\ pc = "parser"
    /\ \E lines \in BoundedSeq(SampleLines, MaxLines) :
           rdf_content = Join(lines, <<LF>>)
    /\ event = None
    /\ s3_object = None
    /\ sparql = None
    /\ ontology_model = None
    /\ triples = None
    /\ validation = None
    /\ result = None
    /\ doc = None
    /\ rdf_graph = None
    /\ env = None
    /\ calls = <<>>
    /\ locals = None

\* parse_turtle_simple on the text
ParseContent ==
    /\ pc = "parser"
    /\ pc' = "recovered"
    /\ triples' = parse_turtle_simple(rdf_content)
    /\ UNCHANGED <<event, s3_object, sparql, ontology_model, validation,
                   result, doc, rdf_graph, rdf_content, env, calls, locals>>

NextParse == ParseContent

SpecParse == InitParse /\ [][NextParse]_vars

-----------------------------------------------------------------------------
(* The generator's output handed to the validator *)

\* Schema Models the endpoint may hold: no rows; a class row, a property
\* row and a cardinality restriction on the Document class; no answer at all
PipelineAnswers ==
    {<<JsonAnswer(<<>>), JsonAnswer(<<>>), JsonAnswer(<<>>)>>,
     <<[kind |-> "timeout"], [kind |-> "timeout"], [kind |-> "timeout"]>>,
     <<JsonAnswer(<<[class |-> UriTerm(ClassHashDocument)]>>),
       JsonAnswer(<<[property |-> UriTerm(PropHasValue),
                     domain |-> UriTerm(ClassHashDocument)]>>),
       JsonAnswer(<<[class |-> UriTerm(ClassHashDocument),
                     property |-> UriTerm(PropHasValue),
                     restrictionType |-> LiteralTerm(<<"minCardinality">>),
                     value |-> LiteralTerm(<<"1">>)]>>)>>}

InitPipeline ==
    /\ pc = "generator"
    /\ event \in GeneratorEvents
    /\ env \in {e \in Environments : ~e.put_fails}
    /\ sparql \in PipelineAnswers
    /\ s3_object = MissingObject
    /\ ontology_model = None
    /\ triples = None
    /\ validation = None
    /\ result = None
    /\ doc = None
    /\ rdf_graph = None
    /\ rdf_content = None
    /\ calls = <<>>
    /\ locals = None

\* the generator's output becomes the validator's input event
HandOver ==
    /\ pc = "generated"
    /\ result.success
    /\ pc' = "validator"
    /\ event' = result
    /\ result' = None
    /\ calls' = <<>>
    /\ UNCHANGED <<s3_object, sparql, ontology_model, triples, validation, doc,
                   rdf_graph, rdf_content, env, locals>>

NextPipeline == rdf_generator_handler \/ HandOver \/ handler

SpecPipeline == InitPipeline /\ [][NextPipeline]_vars

-----------------------------------------------------------------------------
(* document-parser: create_text_chunks *)

\* A text is a sequence of runs [ch, n]: the character ch, n times.

CHUNK_SIZE == 1000
OVERLAP == 100

\* the number of characters before run k
RECURSIVE Offset(_, _)
Offset(text, k) ==
    IF k <= 1 THEN 0 ELSE Offset(text, k - 1) + text[k - 1].n

\* len(text)
TextLength(text) == Offset(text, Len(text) + 1)

\* re.sub(r'\s+', ' ', text).strip(): every run of white space becomes one
\* blank, and the text loses the blank at either end
CleanText(text) ==
    LET IsSpace(k) == text[k].ch \in Whitespace
        blanks == [k \in 1..Len(text) |->
                      IF IsSpace(k) THEN [ch |-> SP, n |-> 1] ELSE text[k]]
        kept == {k \in 1..Len(text) :
                    IsSpace(k) =>
                        /\ k > 1 /\ ~IsSpace(k - 1)
                        /\ \E j \in (k + 1)..Len(text) : ~IsSpace(j)}
    IN  SelectIdx(blanks, kept)

\* the positions, from 0, where the two characters of punct stand
PunctAt(text, punct) ==
    {Offset(text, k) + text[k].n - 1 :
        k \in {j \in 1..(Len(text) - 1) :
                  text[j].ch = punct[1] /\ text[j + 1].ch = punct[2]}}

\* the positions of the blanks
BlanksAt(text) ==
    UNION {Offset(text, k)..(Offset(text, k) + text[k].n - 1) :
              k \in {j \in 1..Len(text) : text[j].ch \in Whitespace}}

\* an index of a slice as Python reads it: a negative index counts from
\* the end, and the result is clipped to the text
SliceIndex(i, length) ==
    IF i < 0 THEN Max({i + length, 0}) ELSE Min({i, length})

\* text.rfind(punct, start, end)
rfind(text, punct, start, end) ==
    LET lo == SliceIndex(start, TextLength(text))
        hi == SliceIndex(end, TextLength(text))
        found == {p \in PunctAt(text, punct) : lo <= p /\ p + 2 <= hi}
    IN  IF found = {} THEN -1 ELSE Max(found)

\* the sentence-boundary search: the end of the chunk that starts at start
\* and would end at end
RECURSIVE BreakAt(_, _, _, _)
BreakAt(text, puncts, start, end) ==
    IF puncts = <<>> THEN end
    ELSE LET last_punct == rfind(text, Head(puncts), start, end)
         IN  IF last_punct # -1 THEN last_punct + 1
             ELSE BreakAt(text, Tail(puncts), start, end)

\* text[start:end].strip(), as the first and last position it keeps; the
\* empty string is a pair whose first position is beyond its last
RECURSIVE StripSlice(_, _, _)
StripSlice(blanks, lo, hi) ==
    IF lo >= hi THEN <<lo, lo - 1>>
    ELSE IF lo \in blanks THEN StripSlice(blanks, lo + 1, hi)
    ELSE IF (hi - 1) \in blanks THEN StripSlice(blanks, lo, hi - 1)
    ELSE <<lo, hi - 1>>

\* one chunk dict; text is the part of the document it holds
Chunk(chunk_id, kept, start, end) ==
    [chunkId |-> chunk_id,
     text |-> kept,
     startPosition |-> start,
     endPosition |-> end,
     length |-> kept[2] - kept[1] + 1]

MaxSentences == 3
MaxChunkId == 8

\* sentences: letters, then a period or an exclamation mark and a blank, a
\* period and a line break, or two blanks
Sentences ==
    {<<[ch |-> "x", n |-> n]>> \o close :
        n \in {40, 99, 600, 950},
        close \in {<<[ch |-> DOT, n |-> 1], [ch |-> SP, n |-> 1]>>,
                   <<[ch |-> "!", n |-> 1], [ch |-> SP, n |-> 1]>>,
                   <<[ch |-> DOT, n |-> 1], [ch |-> LF, n |-> 1]>>,
                   <<[ch |-> SP, n |-> 2]>>}}

InitChunks ==
    /\ pc = "chunker"
    /\ \E sentences \in BoundedSeq(Sentences, MaxSentences) :
           doc = [text |-> Flatten(sentences)]
    /\ event = None
    /\ s3_object = None
    /\ sparql = None
    /\ ontology_model = None
    /\ triples = None
    /\ validation = None
    /\ result = None
    /\ rdf_graph = None
    /\ rdf_content = None
    /\ env = None
    /\ calls = <<>>
    /\ locals = None

\* create_text_chunks up to its loop: a text of chunk_size characters or
\* fewer is returned as one chunk
create_text_chunks ==
    /\ pc = "chunker"
    /\ LET text == CleanText(doc.text)
           length == TextLength(text)
       IN  IF length <= CHUNK_SIZE
           THEN /\ pc' = "chunked"
                /\ result' = << Chunk(0, <<0, length - 1>>, 0, length) >>
                /\ UNCHANGED locals
           ELSE /\ pc' = "chunking"
                /\ locals' = [text |-> text, start |-> 0, chunk_id |-> 0,
                              chunks |-> <<>>]
                /\ UNCHANGED result
    /\ UNCHANGED <<event, s3_object, sparql, ontology_model, triples,
                   validation, doc, rdf_graph, rdf_content, env, calls>>

\* the loop's test and one iteration, or the return after the loop
ChunkLoop ==
    /\ pc = "chunking"
    /\ locals.chunk_id < MaxChunkId
    /\ LET text == locals.text
           length == TextLength(text)
           start == locals.start
       IN  IF start < length
           THEN LET window == Min({start + CHUNK_SIZE, length})
                    end == IF window < length
                           THEN BreakAt(text, << <<DOT, SP>>, <<DOT, LF>>,
                                                 <<"!", SP>>, <<"?", LF>> >>,
                                        start, window)
                           ELSE window
                    kept == StripSlice(BlanksAt(text),
                                       SliceIndex(start, length),
                                       SliceIndex(end, length))
                    filled == kept[1] <= kept[2]
                IN  /\ locals' =
                        [locals EXCEPT
                            !.chunks = IF filled
                                       THEN Append(@, Chunk(locals.chunk_id,
                                                            kept, start, end))
                                       ELSE @,
                            !.chunk_id = IF filled THEN @ + 1 ELSE @,
                            !.start = IF end < length THEN end - OVERLAP
                                      ELSE length]
                    /\ UNCHANGED <<pc, result>>
           ELSE /\ pc' = "chunked"
                /\ result' = locals.chunks
                /\ UNCHANGED locals
    /\ UNCHANGED <<event, s3_object, sparql, ontology_model, triples,
                   validation, doc, rdf_graph, rdf_content, env, calls>>

NextChunks == create_text_chunks \/ ChunkLoop

SpecChunks == InitChunks /\ [][NextChunks]_vars

-----------------------------------------------------------------------------
(* neptune-writer: handler, poll_neptune_load_status *)

MAX_WAIT_SECONDS == 300
WAIT_INTERVAL == 5
NEPTUNE_ENDPOINT == <<"neptune.example.com">>

\* the seconds a request to the loader may take, up to its timeout
RequestTimes == {0, 1, 10}

\* the overallStatus of a status response
Overall(status) == [status |-> status]

\* what a status request meets: the request raises, the loader answers
\* with another code than 200, or with 200 and an overallStatus that is
\* empty, in progress, or terminal
LoadAnswers ==
    {[kind |-> "raises"], [kind |-> "http", code |-> 500]}
    \cup {[kind |-> "http", code |-> 200, overall |-> o] :
             o \in {<<>>,
                    Overall("LOAD_IN_PROGRESS"),
                    [status |-> "LOAD_COMPLETED", totalRecords |-> 3],
                    Overall("LOAD_CANCELLED"),
                    [status |-> "LOAD_FAILED", parsingErrors |-> 2]}}

\* the timeout test with nothing waited for
TimedOut_AtOnce(elapsed) == elapsed >= 0

\* elapsed > max_wait_seconds
TimedOut(elapsed) == elapsed > MAX_WAIT_SECONDS

\* overall_status.get('status') of a response, "" for None; a request
\* that raises, another code than 200 and a missing status give none
ObservedStatus(answer) ==
    IF answer.kind = "http" /\ answer.code = 200
    THEN GetOr(answer.overall, "status", "")
    ELSE ""

TerminalStatuses == {"LOAD_COMPLETED", "LOAD_FAILED", "LOAD_CANCELLED"}

\* the dict poll_neptune_load_status returns
LoadStatus(overall) ==
    [status |-> overall.status,
     totalRecords |-> GetOr(overall, "totalRecords", 0),
     totalDuplicates |-> GetOr(overall, "totalDuplicates", 0),
     parsingErrors |-> GetOr(overall, "parsingErrors", 0),
     insertErrors |-> GetOr(overall, "insertErrors", 0),
     totalTimeSpent |-> GetOr(overall, "totalTimeSpent", 0)]

\* the dict of the writer's except branch
WriterErrorResult(ev, error) ==
    Merge(ev, [success |-> FALSE,
               error |-> error,
               stage |-> "neptune-write"])

\* the dict of the writer's normal path
WriterResult(ev, load_id, load_status) ==
    Merge(ev, [neptuneLoadId |-> load_id,
               neptuneLoadStatus |-> load_status.status,
               loadedTriples |-> load_status.totalRecords,
               neptuneEndpoint |-> NEPTUNE_ENDPOINT,
               success |-> load_status.status = "LOAD_COMPLETED"])

InitPolling ==
    /\ pc = "writer"
    /\ event \in {UpstreamEvent, [documentId |-> DocId, tripleCount |-> 3]}
    /\ env = [clock |-> 0]
    /\ s3_object = None
    /\ sparql = None
    /\ ontology_model = None
    /\ triples = None
    /\ validation = None
    /\ result = None
    /\ doc = None
    /\ rdf_graph = None
    /\ rdf_content = None
    /\ calls = <<>>
    /\ locals = None

\* The writer's handler up to the polling: the bulk load is initiated, or
\* the handler returns an error result. locals holds the variables of
\* poll_neptune_load_status, the elapsed time it computed last, and, for
\* the record, the first terminal status a poll observed and whether a
\* status request was sent after it.
neptune_writer_handler ==
    /\ pc = "writer"
    /\ IF Falsy(event, "documentId") \/ Falsy(event, "rdfS3Key")
       THEN /\ pc' = "loaded"
            /\ result' = WriterErrorResult(event,
                             "documentId and rdfS3Key are required")
            /\ UNCHANGED <<env, locals, calls>>
       ELSE \E d \in RequestTimes, initiated \in BOOLEAN :
            /\ env' = [env EXCEPT !.clock = @ + d]
            /\ calls' = <<"loader.post">>
            /\ IF initiated
               THEN /\ pc' = "polling"
                    /\ locals' = [load_id |-> <<"load-1">>,
                                  start_time |-> env.clock + d,
                                  elapsed |-> 0,
                                  observed |-> "",
                                  polled_after |-> FALSE]
                    /\ UNCHANGED result
               ELSE /\ pc' = "loaded"
                    /\ result' = WriterErrorResult(event,
                                     "Failed to initiate Neptune bulk load")
                    /\ UNCHANGED locals
    /\ UNCHANGED <<event, s3_object, sparql, ontology_model, triples,
                   validation, doc, rdf_graph, rdf_content>>

\* One iteration of the polling loop, and the handler's return when the
\* loop ends. An exception raised inside the try block, the one for
\* LOAD_FAILED included, is caught by the loop's own except clause.
poll_neptune_load_status ==
    /\ pc = "polling"
    /\ LET elapsed == env.clock - locals.start_time
       IN  IF TimedOut(elapsed)
           THEN /\ pc' = "loaded"
                /\ result' = WriterErrorResult(event,
                                 "Neptune load timeout after 300 seconds")
                /\ locals' = [locals EXCEPT !.elapsed = elapsed]
                /\ UNCHANGED <<env, calls>>
           ELSE \E answer \in LoadAnswers, d \in RequestTimes :
                LET status == ObservedStatus(answer)
                    seen == [locals EXCEPT
                                !.elapsed = elapsed,
                                !.polled_after = @ \/ locals.observed # "",
                                !.observed =
                                    IF @ = "" /\ status \in TerminalStatuses
                                    THEN status ELSE @]
                IN  /\ locals' = seen
                    /\ calls' = <<"loader.post", "loader.get">>
                    /\ IF status \in TerminalStatuses /\ status # "LOAD_FAILED"
                       THEN /\ pc' = "loaded"
                            /\ env' = [env EXCEPT !.clock = @ + d]
                            /\ result' = WriterResult(event, locals.load_id,
                                             LoadStatus(answer.overall))
                       ELSE /\ env' = [env EXCEPT
                                          !.clock = @ + d + WAIT_INTERVAL]
                            /\ UNCHANGED <<pc, result>>
    /\ UNCHANGED <<event, s3_object, sparql, ontology_model, triples,
                   validation, doc, rdf_graph, rdf_content>>

NextPolling == neptune_writer_handler \/ poll_neptune_load_status

SpecPolling == InitPolling /\ [][NextPolling]_vars

\* the Lambda runs its code: an iteration that can be taken is taken
SpecPollingFair == SpecPolling /\ WF_vars(NextPolling)

\* the graph was serialized in the fully-qualified form
SerializedNTriples == pc \in {"serialized", "parsed"}

\* a term in brackets
Bracketed(uri) == <<LT>> \o uri \o <<GT>>

RenderedTurtle ==
    pc = "rendered" /\ rdf_content # None /\ env.RDF_FORMAT = "turtle"

\* the line of triple k in the compact text: the line of its rank among the
\* triples of its subject, below the head of its subject's block
LineOf(lines, k) ==
    LET subject == rdf_graph[k].subject
        head == CHOOSE i \in BlockHeads(lines) : HeadSubject(lines[i]) = subject
    IN  lines[head + Cardinality({m \in TriplesAt(subject) : m <= k})]

\* the line with its indentation and its closing space and mark removed
Statement(line) == SubSeq(line, 5, Len(line) - 2)

\* C22: in the compact text an object that starts with a double quote is
\* passed through unchanged; an object that starts with the base namespace,
\* which holds the doc:, entity: and onto: namespaces, is written as a full
\* bracketed URI and never abbreviated; any other object is formatted as
\* predicates are: a name that starts with rdf: or xsd: unchanged, the rest
\* bracketed.
C22_BaseObjectsBracketed ==
    RenderedTurtle =>
        LET lines == SplitOn(rdf_content, LF)
        IN  \A k \in 1..Len(rdf_graph) :
                LET object == rdf_graph[k].object
                    written ==
                        IF IsLiteral(object) THEN object
                        ELSE IF StartsWith(object, NAMESPACE_BASE)
                        THEN Bracketed(object)
                        ELSE IF Head(object) \in {"rdf:", "xsd:"} THEN object
                        ELSE Bracketed(object)
                IN  Statement(LineOf(lines, k))
                        = format_uri(rdf_graph[k].predicate) \o <<SP>> \o written

\* a graph with an object in a known namespace and an object outside the
\* base namespace was serialized in the compact form
C22_Witness ==
    /\ RenderedTurtle
    /\ \E i, j \in 1..Len(rdf_graph) :
        /\ StartsWith(rdf_graph[i].object, NAMESPACE_ONTO)
        /\ ~IsLiteral(rdf_graph[j].object)
        /\ ~StartsWith(rdf_graph[j].object, NAMESPACE_BASE)

\* C22 as stated: every object that is not a literal is formatted by the
\* rule of predicates, abbreviated with doc:, entity: or onto: when it lies
\* in that namespace and bracketed in full only when it lies in none.
C22_ObjectsAbbreviated ==
    RenderedTurtle =>
        LET lines == SplitOn(rdf_content, LF)
        IN  \A k \in 1..Len(rdf_graph) :
                LET object == rdf_graph[k].object
                IN  Statement(LineOf(lines, k))
                        = format_uri(rdf_graph[k].predicate) \o <<SP>>
                          \o (IF IsLiteral(object) THEN object
                              ELSE format_uri(object))

\* a token of the form <...>
IsBracketed(token) ==
    Len(token) >= 2 /\ token[1] = LT /\ token[Len(token)] = GT

\* the line without its first two tokens and the white space around them
RestOfLine(line) ==
    LET NextToken(s) ==
            LET t == Strip(s, Whitespace)
                at == {i \in 1..Len(t) : t[i] \in Whitespace}
            IN  IF at = {} THEN <<>> ELSE SubSeq(t, Min(at), Len(t))
    IN  Strip(NextToken(NextToken(line)), Whitespace)

\* the triple a statement line stands for: the two URIs without their
\* brackets, and the rest of the line without its trailing period and the
\* angle and quote characters around it
StatementOf(line) ==
    LET parts == SplitWs(line)
    IN  << SubSeq(parts[1], 2, Len(parts[1]) - 1),
           SubSeq(parts[2], 2, Len(parts[2]) - 1),
           Strip(RStrip(RestOfLine(line), {SP, DOT}), {LT, GT, QUOTE}) >>

\* the line is a statement: not blank, not a comment, not a directive, two
\* bracketed URIs and something after them
IsStatement(line) ==
    LET stripped == Strip(line, Whitespace)
        parts == SplitWs(line)
    IN  /\ stripped # <<>>
        /\ stripped[1] \notin {"#", "@"}
        /\ Len(parts) >= 3
        /\ IsBracketed(parts[1])
        /\ IsBracketed(parts[2])

\* C23: parse_turtle_simple yields one triple for each line that is a
\* statement and none for any other line, in line order; the object is the
\* rest of the line with the trailing period and the surrounding angle or
\* quote characters stripped.
C23_ExactlyStatements ==
    pc = "recovered" =>
        LET lines == SplitOn(rdf_content, LF)
            statements == SelectIdx(lines, {i \in 1..Len(lines) :
                                               IsStatement(lines[i])})
        IN  triples = [k \in 1..Len(statements) |-> StatementOf(statements[k])]

\* the validator returned on a graph staged in the compact form
ValidatedTurtle ==
    pc = "validated" /\ rdf_content # None /\ env.RDF_FORMAT = "turtle"

C28_StartIncreases ==
    [][pc = "chunking" /\ pc' = "chunking" => locals'.start > locals.start]_vars

\* the objects of the parsed triples of subject s that satisfy Test on the
\* predicate, in input order
ObjectsOf(s, Test(_)) ==
    LET at == {k \in 1..Len(triples) : triples[k][1] = s /\ Test(triples[k][2])}
        picked == SelectIdx(triples, at)
    IN  [k \in 1..Len(picked) |-> picked[k][3]]

\* the number of type entries and property values of the instances
EntryCount(instances) ==
    Len(Flatten([i \in 1..Len(instances) |->
        instances[i].types
        \o Flatten([j \in 1..Len(instances[i].properties) |->
               instances[i].properties[j].values])]))

\* C24: grouping conserves the input: every subject of the parsed triples
\* has one instance; its type list is the objects of its type-declaration
\* triples and each of its property lists is the objects of its triples with
\* that predicate, in input order, duplicates kept; a property list exists
\* for the predicates the subject has and for no other; the entries of all
\* instances together are as many as triples_validated, the input length,
\* and instances_validated is the number of distinct subjects.
C24_GroupingConserves ==
    Validated =>
        LET instances == RunInstances
            subjects == {triples[k][1] : k \in 1..Len(triples)}
        IN  /\ {instances[i].uri : i \in 1..Len(instances)} = subjects
            /\ Len(instances) = Cardinality(subjects)
            /\ \A i \in 1..Len(instances) :
                LET inst == instances[i]
                    IsType(p) == p = RDF_TYPE
                IN  /\ inst.types = ObjectsOf(inst.uri, IsType)
                    /\ \A k \in 1..Len(triples) :
                        LET p == triples[k][2]
                            IsP(q) == q = p
                        IN  triples[k][1] = inst.uri /\ p # RDF_TYPE =>
                                PropertyValues(inst, p) = ObjectsOf(inst.uri, IsP)
                    /\ \A j \in 1..Len(inst.properties) :
                        /\ inst.properties[j].prop # RDF_TYPE
                        /\ \E k \in 1..Len(triples) :
                            /\ triples[k][1] = inst.uri
                            /\ triples[k][2] = inst.properties[j].prop
                        /\ \A l \in 1..Len(inst.properties) :
                            inst.properties[l].prop = inst.properties[j].prop
                                => l = j
            /\ EntryCount(instances) = Len(triples)
            /\ Completed =>
                /\ validation.triples_validated = Len(triples)
                /\ validation.instances_validated = Cardinality(subjects)

\* a completed run grouped two subjects, one of them with the same value
\* twice under one property
C24_Witness ==
    /\ Completed
    /\ validation.instances_validated >= 2
    /\ \E i \in 1..Len(RunInstances) :
        \E j \in 1..Len(RunInstances[i].properties) :
            LET values == RunInstances[i].properties[j].values
            IN  Len(values) > Cardinality(Range(values))


\* the Chunk nodes of the graph: the subjects declared as TextChunk
ChunkNodes ==
    {rdf_graph[k].subject : k \in {i \in 1..Len(rdf_graph) :
        /\ rdf_graph[i].predicate = RdfTypePrefixed
        /\ rdf_graph[i].object = Onto("TextChunk")}}

\* the number of values the node has under the property
ValueCount(node, property) ==
    Cardinality({k \in 1..Len(rdf_graph) :
        /\ rdf_graph[k].subject = node
        /\ rdf_graph[k].predicate = Onto(property)})

\* C25: the graph has one Chunk node per chunk of the input list: as many
\* distinct chunk subjects as input chunks, each with exactly one chunk-id,
\* one text, one start-position and one length value.
C25_OneNodePerChunk ==
    Built =>
        /\ Cardinality(ChunkNodes) = Len(GetOr(event, "chunks", <<>>))
        /\ \A node \in ChunkNodes :
            \A property \in {"hasChunkId", "hasText", "hasStartPosition",
                             "hasLength"} :
                ValueCount(node, property) = 1


\* the metadata of the event, and whether it holds a non-empty field
EventMetadata == GetOr(event, "metadata", <<>>)
Present(key) == key \in DOMAIN EventMetadata /\ EventMetadata[key] # <<>>

\* the sum of 6 + 3 * m_c over the chunks, m_c the mentions found in chunk c
RECURSIVE ChunkTripleSum(_)
ChunkTripleSum(chunks) ==
    IF chunks = <<>> THEN 0
    ELSE 6 + 3 * Len(extract_entities_simple(GetOr(Head(chunks), "text", <<>>)))
         + ChunkTripleSum(Tail(chunks))

\* C26: the graph has 5 + 3*K + T + 3*A + the sum over the chunks of
\* (6 + 3*m_c) triples, K the parts of the comma-split keyword field, T and
\* A one when the document type, the author, is present with a non-empty
\* value, m_c the mentions extracted from chunk c, at most five; the handler
\* reports that number as tripleCount; the first five triples are those of
\* the Document node: type, identifier, file name, text length, creation
\* timestamp.
C26_TripleCount ==
    Built =>
        LET chunks == GetOr(event, "chunks", <<>>)
            K == Len(KeywordParts)
            T == IF Present("documentType") THEN 1 ELSE 0
            A == IF Present("author") THEN 1 ELSE 0
            doc_uri == rdf_graph[1].subject
        IN  /\ Len(rdf_graph) = 5 + 3 * K + T + 3 * A + ChunkTripleSum(chunks)
            /\ \A k \in 1..Len(chunks) :
                Len(extract_entities_simple(GetOr(chunks[k], "text", <<>>)))
                    \in 0..MAX_ENTITIES
            /\ result.success => result.tripleCount = Len(rdf_graph)
            /\ doc_uri = NAMESPACE_DOC \o event.documentId
            /\ \A k \in 1..5 : rdf_graph[k].subject = doc_uri
            /\ [k \in 1..5 |-> rdf_graph[k].predicate]
                   = << RdfTypePrefixed, Onto("hasId"), Onto("hasFileName"),
                        Onto("hasTextLength"), Onto("createdAt") >>
            /\ rdf_graph[1].object = Onto("Document")

\* the handler staged a graph with keywords, an author and two chunks, one
\* of them with mentions
C26_Witness ==
    /\ Built
    /\ result.success
    /\ Len(KeywordParts) >= 1
    /\ Present("author")
    /\ Len(GetOr(event, "chunks", <<>>)) = 2
    /\ ChunkTripleSum(GetOr(event, "chunks", <<>>)) > 12


\* the polling is over and the writer's handler has returned
Loaded == pc = "loaded" /\ locals # None

\* C29: polling stops at the first poll that observes a terminal status:
\* once a poll has observed one, the handler has returned, no status
\* request followed, LOAD_COMPLETED or LOAD_CANCELLED is the status handed
\* to the caller, and LOAD_FAILED is an error raised to the caller.
C29_StopsAtTerminal ==
    pc \in {"polling", "loaded"} /\ locals # None /\ locals.observed # "" =>
        /\ pc = "loaded"
        /\ ~locals.polled_after
        /\ IF locals.observed = "LOAD_FAILED"
           THEN ~result.success /\ "error" \in DOMAIN result
           ELSE result.neptuneLoadStatus = locals.observed

\* C30: the polling always ends, the clock advancing by the wait interval
\* with every wait: the handler returns in the end, and when it returns
\* after polling it either hands on a terminal status that a poll observed
\* or reports the timeout, raised with the elapsed time above
\* max_wait_seconds; a request that raises never ends the polling.
C30_PollingEnds ==
    /\ <>(pc = "loaded")
    /\ [](Loaded =>
            \/ /\ "neptuneLoadStatus" \in DOMAIN result
               /\ result.neptuneLoadStatus \in TerminalStatuses
               /\ locals.observed # ""
            \/ /\ "error" \in DOMAIN result
               /\ result.error = "Neptune load timeout after 300 seconds"
               /\ locals.elapsed > MAX_WAIT_SECONDS)

\* the polling ended by the timeout, no poll having observed a terminal
\* status
C30_Witness ==
    /\ Loaded
    /\ "error" \in DOMAIN result
    /\ locals.observed = ""
    /\ locals.elapsed > MAX_WAIT_SECONDS

=============================================================================
